---------------------------- MODULE Spec2Model ----------------------------
(***************************************************************************)
(* A model of the CAT / radio-control core of the PSK-31 client            *)
(* (src-tauri): the FT-991A adapter (adapters/ft991a.rs), the command      *)
(* layer over AppState (commands/radio.rs, commands/serial.rs) and the     *)
(* CAT session (cat/session.rs, cat/encode.rs, cat/decode.rs).             *)
(* The transmission and audio commands (commands/tx.rs, commands/audio.rs)  *)
(* and the modem (modem/varicode.rs, modem/encoder.rs, modem/decoder.rs)   *)
(* follow, each with a specification of its own.                           *)
(*                                                                         *)
(* Wire strings are sequences of one-character strings, so that prefix     *)
(* stripping, trimming and digit parsing are computed as the code does.    *)
(***************************************************************************)
EXTENDS Integers, Sequences, FiniteSets, TLC

(***************************************************************************)
(* Strings as the code handles them                                        *)
(***************************************************************************)

\* The byte 0xFF: never part of valid UTF-8 (std::str::from_utf8 fails on it).
BadByte == "xFF"

Digits == <<"0", "1", "2", "3", "4", "5", "6", "7", "8", "9">>

Whitespace == {" ", "\t", "\n", "\r"}

IsDigit(c) == \E i \in 1..10 : Digits[i] = c

DigitVal(c) == (CHOOSE i \in 1..10 : Digits[i] = c) - 1

\* [u8]::contains
Contains(s, c) == \E i \in 1..Len(s) : s[i] = c

\* str::starts_with
StartsWith(s, p) == Len(s) >= Len(p) /\ SubSeq(s, 1, Len(p)) = p

\* str::strip_prefix(p).unwrap_or(s)
StripPrefixOr(s, p) == IF StartsWith(s, p) THEN SubSeq(s, Len(p) + 1, Len(s)) ELSE s

RECURSIVE TrimStart(_)
TrimStart(s) == IF s # <<>> /\ Head(s) \in Whitespace THEN TrimStart(Tail(s)) ELSE s

RECURSIVE TrimEnd(_)
TrimEnd(s) ==
    IF s # <<>> /\ s[Len(s)] \in Whitespace THEN TrimEnd(SubSeq(s, 1, Len(s) - 1)) ELSE s

\* str::trim
Trim(s) == TrimEnd(TrimStart(s))

\* str::trim_end_matches(c): every trailing c is removed
RECURSIVE TrimEndMatches(_, _)
TrimEndMatches(s, c) ==
    IF s # <<>> /\ s[Len(s)] = c THEN TrimEndMatches(SubSeq(s, 1, Len(s) - 1), c) ELSE s

\* The decimal digits of n, most significant first
RECURSIVE DecDigits(_)
DecDigits(n) == IF n < 10 THEN <<Digits[n + 1]>> ELSE DecDigits(n \div 10) \o <<Digits[(n % 10) + 1]>>

RECURSIVE Zeros(_)
Zeros(k) == IF k <= 0 THEN <<>> ELSE <<"0">> \o Zeros(k - 1)

\* A faulty variant of ZeroPad: no padding
ZeroPad_NoPad(n, w) == DecDigits(n)

\* format!("{n:0w}"): zero-padded to at least w digits, longer when n needs more
ZeroPad(n, w) == Zeros(w - Len(DecDigits(n))) \o DecDigits(n)

RECURSIVE DigitsValue(_, _)
DigitsValue(s, acc) == IF s = <<>> THEN acc ELSE DigitsValue(Tail(s), acc * 10 + DigitVal(Head(s)))

\* str::parse::<u64>() for at most 11 characters (no overflow): an optional
\* leading '+', then one or more decimal digits. -1 stands for Err.
ParseU64(s) ==
    LET body == IF s # <<>> /\ Head(s) = "+" THEN Tail(s) ELSE s
    IN  IF body = <<>> \/ \E i \in 1..Len(body) : ~IsDigit(body[i])
        THEN -1
        ELSE DigitsValue(body, 0)

\* std::str::from_utf8 succeeds
IsUtf8(s) == ~Contains(s, BadByte)


(***************************************************************************)
(* adapters/ft991a.rs: constants and pure helpers                          *)
(***************************************************************************)

\* Size of the fixed read buffer of send_command
READ_BUF_SIZE == 64

\* Read attempts per command
RESPONSE_TIMEOUT_READS == 5

\* (low_hz, high_hz) pairs, inclusive
AMATEUR_BANDS_HZ ==
    << <<1800000, 2000000>>,     <<3500000, 4000000>>,     <<5332000, 5405000>>,
       <<7000000, 7300000>>,     <<10100000, 10150000>>,   <<14000000, 14350000>>,
       <<18068000, 18168000>>,   <<21000000, 21450000>>,   <<24890000, 24990000>>,
       <<28000000, 29700000>>,   <<50000000, 54000000>>,   <<144000000, 148000000>>,
       <<420000000, 450000000>> >>

\* A faulty variant of is_amateur_frequency: the upper edge is left out
is_amateur_frequency_OpenEnd(hz) ==
    \E i \in 1..Len(AMATEUR_BANDS_HZ) :
        hz >= AMATEUR_BANDS_HZ[i][1] /\ hz < AMATEUR_BANDS_HZ[i][2]

is_amateur_frequency(hz) ==
    \E i \in 1..Len(AMATEUR_BANDS_HZ) :
        hz >= AMATEUR_BANDS_HZ[i][1] /\ hz <= AMATEUR_BANDS_HZ[i][2]

\* (CAT code, name)
MODE_TABLE ==
    << <<"1", "LSB">>,      <<"2", "USB">>,      <<"3", "CW">>,       <<"4", "FM">>,
       <<"5", "AM">>,       <<"6", "RTTY-LSB">>, <<"7", "CW-R">>,     <<"8", "DATA-LSB">>,
       <<"9", "RTTY-USB">>, <<"A", "DATA-FM">>,  <<"B", "FM-N">>,     <<"C", "DATA-USB">>,
       <<"D", "AM-N">>,     <<"E", "C4FM">> >>

\* Results: Psk31Result<T>. kind is the Psk31Error variant, cause names the
\* diagnostic; hz / mode carry the value of a successful query.
OkRes == [ok |-> TRUE, kind |-> "", cause |-> "", hz |-> 0, mode |-> ""]

OkHz(h) == [OkRes EXCEPT !.hz = h]

OkMode(m) == [OkRes EXCEPT !.mode = m]

ErrRes(k, c) == [ok |-> FALSE, kind |-> k, cause |-> c, hz |-> 0, mode |-> ""]

\* Ft991aRadio::parse_frequency
parse_frequency(response) ==
    LET trimmed == TrimEndMatches(Trim(response), ";")
    IN  IF ~StartsWith(trimmed, <<"F", "A">>) \/ Len(trimmed) < 13
        THEN ErrRes("Cat", "invalid_frequency_response")
        ELSE LET hz == ParseU64(SubSeq(trimmed, 3, 13))
             IN  IF hz < 0 THEN ErrRes("Cat", "parse_frequency_failed")
                 ELSE IF ~is_amateur_frequency(hz) THEN ErrRes("Cat", "outside_amateur_bands")
                 ELSE OkHz(hz)

\* Ft991aRadio::parse_mode
parse_mode(response) ==
    LET trimmed == TrimEndMatches(Trim(response), ";")
    IN  IF ~StartsWith(trimmed, <<"M", "D", "0">>) \/ Len(trimmed) < 4
        THEN ErrRes("Cat", "invalid_mode_response")
        ELSE LET code == trimmed[4]
             IN  IF \E i \in 1..Len(MODE_TABLE) : MODE_TABLE[i][1] = code
                 THEN OkMode(MODE_TABLE[CHOOSE i \in 1..Len(MODE_TABLE) :
                                           MODE_TABLE[i][1] = code
                                           /\ \A j \in 1..(i - 1) : MODE_TABLE[j][1] # code][2])
                 ELSE ErrRes("Cat", "unknown_mode_code")

\* Ft991aRadio::mode_to_code: the code, or "" for Err (unknown mode name)
mode_to_code(mode) ==
    IF \E i \in 1..Len(MODE_TABLE) : MODE_TABLE[i][2] = mode
    THEN MODE_TABLE[CHOOSE i \in 1..Len(MODE_TABLE) :
                        MODE_TABLE[i][2] = mode
                        /\ \A j \in 1..(i - 1) : MODE_TABLE[j][2] # mode][1]
    ELSE ""

\* The command string each RadioControl method of Ft991aRadio hands to
\* send_command. <<>> : the method returns before send_command (set_mode with
\* an unknown name).
MethodWire(meth, arg) ==
    CASE meth = "ptt_on"        -> <<"T", "X", "1", ";">>
      [] meth = "ptt_off"       -> <<"T", "X", "0", ";">>
      [] meth = "get_frequency" -> <<"F", "A", ";">>
      [] meth = "set_frequency" -> <<"F", "A">> \o ZeroPad(arg, 11) \o <<";">>
      [] meth = "get_mode"      -> <<"M", "D", "0", ";">>
      [] meth = "set_mode"      -> IF mode_to_code(arg) = "" THEN <<>>
                                   ELSE <<"M", "D", "0", mode_to_code(arg), ";">>

\* The part of send_command after the read loop: what it returns for the
\* accumulated bytes, and whether last_command_time was set on the way.
SendTail(wire, buf) ==
    IF Len(buf) = 0
    THEN [res |-> ErrRes("Cat", "no_response"), resp |-> <<>>, stamped |-> FALSE]
    ELSE IF ~IsUtf8(buf)
    THEN [res |-> ErrRes("Cat", "invalid_utf8"), resp |-> <<>>, stamped |-> TRUE]
    ELSE [res |-> OkRes, resp |-> StripPrefixOr(buf, wire), stamped |-> TRUE]

\* The value a RadioControl method of Ft991aRadio returns once send_command
\* has returned sres (`?` propagates its error unchanged).
MethodResult(meth, sres, resp) ==
    IF ~sres.ok THEN sres
    ELSE CASE meth = "get_frequency" -> parse_frequency(resp)
           [] meth = "get_mode"      -> parse_mode(resp)
           [] OTHER                  -> OkRes

\* A faulty variant of FlagAfter: ptt_on raises the flag even when it fails
FlagAfter_OnError(meth, res, flag) ==
    IF meth = "ptt_on" THEN TRUE
    ELSE IF res.ok /\ meth = "ptt_off" THEN FALSE
    ELSE flag

\* is_transmitting after a method returned res
FlagAfter(meth, res, flag) ==
    IF res.ok /\ meth = "ptt_on" THEN TRUE
    ELSE IF res.ok /\ meth = "ptt_off" THEN FALSE
    ELSE flag


(***************************************************************************)
(* State                                                                   *)
(***************************************************************************)

VARIABLES
    radio,        \* AppState.radio: the bound adapter, or NoRadio (None)
    port_name,    \* AppState.serial_port_name: a port name, or NoPort (None)
    radio_lock,   \* holder of the AppState.radio mutex, or NoThread
    mock_mode,    \* whether MOCK_RADIO is set in the process environment
    link,         \* the serial link attached: "raw" or "framed" (see Replies)
    th,           \* per command thread: position, locals, the exchange in progress
    obs,          \* ghost: the command that returned in the last step, if any
    dropObs       \* ghost: the adapter drop that completed in the last step, if any

appVars == <<radio, port_name, radio_lock, mock_mode, link, th, obs, dropObs>>

\* A CatSession over its own serial connection, and the clock
VARIABLES
    now,          \* Instant::now(), in ms
    last_command_time, \* CatSession.last_command_time: an instant, or Never (None)
    s_pc,         \* position of the caller in execute: "idle", "write", "read"
    s_cmd,        \* the CatCommand being executed
    s_pending,    \* bytes the link still holds for this command
    s_buf,        \* read_until_semicolon's buf
    s_reads,      \* read calls made for this command
    s_writes,     \* write calls made for this command
    s_chunks,     \* ghost: what each read call returned (a length, 0, or -1 for Err)
    s_prev,       \* ghost: when the latest execute call began, and, until that call
                  \* has written, when the call before it began
    s_obs         \* ghost: the write or the return of execute in the last step

sessVars == <<now, last_command_time, s_pc, s_cmd, s_pending, s_buf, s_reads, s_writes, s_chunks, s_prev, s_obs>>

\* One call of an adapter method on its own, with its input and what came of it
VARIABLES
    fx            \* the call: method, argument, whether it returned, result, bytes written

callVars == <<fx>>

\* Transmission: AppState.tx_abort / tx_thread, the command in progress, the
\* TX thread with its output stream
VARIABLES
    tx_abort,     \* AppState.tx_abort
    tx_thread,    \* AppState.tx_thread: "some" (a JoinHandle) or "none"
    tx_cmd,       \* the start_tx / stop_tx call in progress: position, and
                  \* (ghost) whether stop_tx found a handle to join
    txt,          \* the TX thread: position, play_pos, total_samples, done_flag,
                  \* whether its output stream runs; ghost: the tx-status events
                  \* it emitted (repeated 'transmitting' events written once),
                  \* keyed (start_tx's ptt_on succeeded), key1 (the state of PTT
                  \* when the callback pulled the first sample)
    tx_obs        \* ghost: the start_tx / stop_tx return of the last step

txVars == <<tx_abort, tx_thread, tx_cmd, txt, tx_obs>>

\* Audio capture: the AppState fields of commands/audio.rs, the command in
\* progress, the audio (DSP) threads spawned so far
VARIABLES
    audio_running,     \* AppState.audio_running
    rx_running,        \* AppState.rx_running
    audio_thread,      \* AppState.audio_thread: 0 (None), or k: the handle of thread k
    audio_device_name, \* AppState.audio_device_name: a device id, or NoDevice (None)
    a_cmd,             \* the start_audio_stream / stop_audio_stream call in progress
    dsp,               \* per audio thread: position, device_lost, the state of its
                       \* input stream; ghost: the audio-status events it emitted,
                       \* whether it left the loop while a stop_audio_stream waited
    a_obs              \* ghost: the command return of the last step

audVars == <<audio_running, rx_running, audio_thread, audio_device_name, a_cmd, dsp, a_obs>>

\* The ring buffer between the capture callback and the DSP loop
VARIABLES
    rb,           \* the samples the buffer holds, oldest first
    rb_next,      \* ghost: the number of the next sample the callback is given
    rb_popped,    \* ghost: the samples the DSP loop popped, in order
    rb_obs        \* ghost: the push or pop of the last step

ringVars == <<rb, rb_next, rb_popped, rb_obs>>

\* One call of cat::encode or cat::decode on its own
VARIABLES
    cx            \* the call: function, command, input, whether it returned, output

codecVars == <<cx>>

\* A VaricodeDecoder fed bit by bit, and one call of Psk31Encoder::encode
VARIABLES
    vd,           \* the VaricodeDecoder: bit_buffer, bit_count, consecutive_zeros
    v_idle,       \* the number of 0 bits pushed before anything else
    v_text,       \* the codepoints whose codes, each followed by 00, are pushed next
    v_fed,        \* ghost: the number of bits pushed so far
    v_out,        \* ghost: every character push_bit returned, with v_fed at that time
    enc           \* the encode call: text, whether it returned, bits, symbols, samples

modemVars == <<vd, v_idle, v_text, v_fed, v_out, enc>>

\* A Psk31Decoder and the signal it is fed
VARIABLES
    dec,          \* the Psk31Decoder
    d_signal,     \* the bit pattern the received signal repeats, and the place in it
    d_obs         \* ghost: the call of the last step, with the decoder before it

rxVars == <<dec, d_signal, d_obs>>

\* The mutexes of AppState and the threads that take them
VARIABLES
    held,         \* per mutex of AppState: the thread holding its guard, or Free
    lc,           \* per command thread: the command, the position in it, and the
                  \* TX thread the command spawns or joins
    l_tx_thread,  \* AppState.tx_thread: the TX thread whose handle it holds, or NoWorker
    l_tx_abort,   \* AppState.tx_abort
    l_workers,    \* per TX thread: "none", "run" or "exited"
    l_dsp         \* the audio thread: "none", "loop", "shutdown" or "exited"

lockVars == <<held, lc, l_tx_thread, l_tx_abort, l_workers, l_dsp>>

vars == <<appVars, sessVars, callVars, txVars, audVars, ringVars, codecVars, modemVars, rxVars, lockVars>>

\* What the steps of the command layer leave alone
notAppVars == <<sessVars, callVars, txVars, audVars, ringVars, codecVars, modemVars, rxVars, lockVars>>

\* What the steps of the CAT session leave alone
notSessVars == <<appVars, callVars, txVars, audVars, ringVars, codecVars, modemVars, rxVars, lockVars>>

\* What a single adapter call leaves alone
notCallVars == <<appVars, sessVars, txVars, audVars, ringVars, codecVars, modemVars, rxVars, lockVars>>

\* What the steps of a transmission leave alone (they key the radio)
notTxVars == <<port_name, radio_lock, mock_mode, link, th, obs, dropObs, sessVars, callVars,
               audVars, ringVars, codecVars, modemVars, rxVars, lockVars>>

\* What the steps of audio capture leave alone
notAudVars == <<appVars, sessVars, callVars, txVars, ringVars, codecVars, modemVars, rxVars, lockVars>>

\* What the ring buffer's operations leave alone
notRingVars == <<appVars, sessVars, callVars, txVars, audVars, codecVars, modemVars, rxVars, lockVars>>

\* What a single encode / decode call leaves alone
notCodecVars == <<appVars, sessVars, callVars, txVars, audVars, ringVars, modemVars, rxVars, lockVars>>

\* What the varicode decoder and the encoder leave alone
notModemVars == <<appVars, sessVars, callVars, txVars, audVars, ringVars, codecVars, rxVars, lockVars>>

\* What the steps on the mutexes leave alone
notLockVars == <<appVars, sessVars, callVars, txVars, audVars, ringVars, codecVars, modemVars, rxVars>>

\* What the PSK-31 decoder leaves alone
notRxVars == <<appVars, sessVars, callVars, txVars, audVars, ringVars, codecVars, modemVars, lockVars>>

\* Command threads (the callers of the tauri commands)
Threads == {"t1", "t2"}

NoThread == "none"

NoPort == ""

\* Inputs of the commands
SetFreqs == {14070000, 10000000}

ModeArgs == {"DATA-USB", "BOGUS"}

Ports == {"ttyUSB0"}

\* What the radio may answer
VfoFreqs == {14070000, 10000000}

ModeCodes == {"C", "Z"}

Nak == <<"?", ";">>

Methods == {"ptt_on", "ptt_off", "get_frequency", "set_frequency", "get_mode", "set_mode"}

\* An adapter object. kind "ft991a": Ft991aRadio {serial, is_transmitting,
\* last_command_time (TRUE: Some)}; kind "mock": MockRadio {frequency, mode,
\* is_transmitting}.
\* Ghost fields: last_ptt, the most recent PTT call that returned Ok;
\* after_err, whether the adapter's previous method call returned a Cat error.
NoRadio ==
    [kind |-> "none", is_transmitting |-> FALSE, last_command_time |-> FALSE,
     frequency |-> 0, mode |-> "", last_ptt |-> "none", after_err |-> FALSE]

\* Ft991aRadio::new
Ft991aRadio_new == [NoRadio EXCEPT !.kind = "ft991a"]

\* MockRadio::new
MockRadio_new == [NoRadio EXCEPT !.kind = "mock", !.frequency = 14070000, !.mode = "DATA-USB"]

\* A command thread outside any command. While in a command: cmd names it,
\* meth/hz/mode the RadioControl method in progress and its argument, tgt the
\* adapter it works on ("slot": the one in AppState, through the mutex guard;
\* "own": one it owns, connect_serial's local or one being dropped), ret where
\* the method returns to, pending/buf/reads the state of send_command's read
\* loop (bytes the link still holds, bytes accumulated, read calls made).
\* Ghost fields: writes (serial write calls of the command), ioErr (a serial
\* call failed), port0 (the port name when the command began), prevErr and
\* akind (the adapter's after_err and kind when the method began).
\* dropLog / dropTx / dropWrites: the outcomes of Drop's ptt_off attempts so
\* far, is_transmitting when Drop began, the serial write calls Drop made.
\* after / err: where a drop in progress continues, and the error the command
\* returns once it is over; port: connect_serial's display_port.
Idle ==
    [pc |-> "idle", cmd |-> "", meth |-> "", hz |-> 0, mode |-> "",
     own |-> NoRadio, tgt |-> "slot", ret |-> "",
     pending |-> <<>>, buf |-> <<>>, reads |-> 0,
     writes |-> 0, ioErr |-> FALSE, dropLog |-> <<>>, dropTx |-> FALSE, dropWrites |-> 0,
     after |-> "", err |-> OkRes,
     port |-> NoPort, port0 |-> NoPort, prevErr |-> FALSE, akind |-> "none"]

NoObs == [ev |-> "none"]

(***************************************************************************)
(* The serial link, as the adapter sees it                                 *)
(***************************************************************************)

FreqText == [f \in SetFreqs \cup VfoFreqs |-> ZeroPad(f, 11)]

\* What the radio answers to a method's command
Answers(meth) ==
    {Nak, <<BadByte, ";">>} \cup
    CASE meth = "get_frequency" -> {<<"F", "A">> \o FreqText[f] \o <<";">> : f \in VfoFreqs}
      [] meth = "get_mode"      -> {<<"M", "D", "0", c, ";">> : c \in ModeCodes}
      [] OTHER                  -> {<<";">>}

\* What the link delivers after a command was written: nothing, the answer,
\* or the echoed command followed by the answer. A framed link never echoes
\* and never garbles.
Replies(meth, wire) ==
    IF link = "raw"
    THEN {<<>>} \cup Answers(meth) \cup {wire \o a : a \in Answers(meth)}
    ELSE {<<>>} \cup (Answers(meth) \ {<<BadByte, ";">>})

\* Index of the first ';' of s, or Len(s)
SemiLen(s) ==
    IF Contains(s, ";") THEN CHOOSE i \in 1..Len(s) : s[i] = ";" /\ \A j \in 1..(i - 1) : s[j] # ";"
    ELSE Len(s)

\* Lengths one read call may return from the pending bytes into a buffer with
\* `space` bytes left. A raw link hands over a single byte, the bytes up to
\* the next terminator, or all it has; a framed link hands over all it has.
ChunkLens(pending, space) ==
    {IF k <= space THEN k ELSE space :
        k \in (IF link = "raw" THEN {1, SemiLen(pending), Len(pending)} ELSE {Len(pending)})
                 \cap (1..Len(pending))} \ {0}

(***************************************************************************)
(* A step of a thread is computed as a record of the values it leaves:     *)
(* me (its own record), radio, lock, port, obs, dropObs.                   *)
(***************************************************************************)

Here(t) ==
    [me |-> th[t], radio |-> radio, lock |-> radio_lock, port |-> port_name,
     obs |-> NoObs, dropObs |-> NoObs]

Commit(t, n) ==
    /\ th' = [th EXCEPT ![t] = n.me]
    /\ radio' = n.radio
    /\ radio_lock' = n.lock
    /\ port_name' = n.port
    /\ obs' = n.obs
    /\ dropObs' = n.dropObs
    /\ UNCHANGED <<mock_mode, link>>
    /\ UNCHANGED notAppVars

Target(n) == IF n.me.tgt = "slot" THEN n.radio ELSE n.me.own

WithTarget(n, r) == IF n.me.tgt = "slot" THEN [n EXCEPT !.radio = r] ELSE [n EXCEPT !.me.own = r]

\* A command returns res to its caller; its guards go out of scope.
CommandReturn(t, n, res, events) ==
    [n EXCEPT !.me = Idle,
              !.lock = IF @ = t THEN NoThread ELSE @,
              !.obs = [ev |-> "ret", t |-> t, cmd |-> n.me.cmd, meth |-> n.me.meth,
                       hz |-> n.me.hz, mode |-> n.me.mode, kind |-> n.me.akind,
                       res |-> res, writes |-> n.me.writes, ioErr |-> n.me.ioErr,
                       reply |-> n.me.buf \o n.me.pending, buf |-> n.me.buf,
                       port0 |-> n.me.port0, events |-> events, prevErr |-> n.me.prevErr]]

(***************************************************************************)
(* adapters/ft991a.rs: RadioControl methods and Drop                       *)
(***************************************************************************)

WriteError == ErrRes("Cat", "write_failed")

ReadError == ErrRes("Cat", "read_failed")

\* The adapter once a method returned res (stamped: last_command_time was set)
AdapterAfter(r, meth, res, stamped) ==
    [r EXCEPT !.is_transmitting = FlagAfter(meth, res, @),
              !.last_command_time = @ \/ stamped,
              !.last_ptt = IF res.ok /\ meth \in {"ptt_on", "ptt_off"} THEN meth ELSE @,
              !.after_err = ~res.ok /\ res.kind = "Cat"]

\* MockRadio's methods: the adapter after, and the result (never an error)
MockAfter(r, meth, hz, mode) ==
    [r EXCEPT !.is_transmitting = FlagAfter(meth, OkRes, @),
              !.frequency = IF meth = "set_frequency" THEN hz ELSE @,
              !.mode = IF meth = "set_mode" THEN mode ELSE @,
              !.last_ptt = IF meth \in {"ptt_on", "ptt_off"} THEN meth ELSE @,
              !.after_err = FALSE]

MockResult(r, meth) ==
    CASE meth = "get_frequency" -> OkHz(r.frequency)
      [] meth = "get_mode"      -> OkMode(r.mode)
      [] OTHER                  -> OkRes

DROP_DELAYS_MS == <<0, 10, 50>>

\* Drop for Ft991aRadio acts only while transmitting
DropReleases(r) == r.kind = "ft991a" /\ r.is_transmitting

\* A faulty variant of DropRetries: the loop does not stop at a success
DropRetries_PastSuccess(log) == Len(log) < Len(DROP_DELAYS_MS)

\* Drop's loop goes on after the attempts in log
DropRetries(log) == ~log[Len(log)] /\ Len(log) < Len(DROP_DELAYS_MS)

DropSeen(t, kind, wasTx, log, writes) ==
    [ev |-> "drop", t |-> t, kind |-> kind, wasTx |-> wasTx, log |-> log, writes |-> writes]

RECURSIVE StartMethod(_, _, _, _, _, _)
RECURSIVE MethodDone(_, _, _)

\* What follows the drop of an adapter
AfterDrop(t, n) ==
    LET m == [n EXCEPT !.me.own = NoRadio, !.me.tgt = "slot", !.me.dropLog = <<>>,
                       !.me.dropTx = FALSE, !.me.dropWrites = 0]
    IN  CASE n.me.after = "cs_port"   -> [m EXCEPT !.me.pc = "cs_port"]
          [] n.me.after = "ds_port"   -> [m EXCEPT !.me.pc = "ds_port"]
          [] n.me.after = "wr_unlock" -> [m EXCEPT !.me.pc = "wr_port", !.lock = NoThread]
          [] OTHER                    -> CommandReturn(t, m, n.me.err, 0)

\* Thread t drops adapter r, then goes on at `after`
DropBegin(t, n, r, after) ==
    LET m == [n EXCEPT !.me.after = after, !.me.own = r, !.me.tgt = "own",
                       !.me.dropLog = <<>>, !.me.dropTx = r.is_transmitting,
                       !.me.dropWrites = 0]
    IN  IF DropReleases(r) THEN StartMethod(t, m, "ptt_off", 0, "", "drop")
        ELSE IF r.kind = "ft991a"
        THEN AfterDrop(t, [m EXCEPT !.dropObs = DropSeen(t, r.kind, r.is_transmitting, <<>>, 0)])
        ELSE AfterDrop(t, m)

\* Drop's loop once self.ptt_off() returned res
DropNext(t, n, res) ==
    LET log == Append(n.me.dropLog, res.ok)
        writes == n.me.dropWrites + n.me.writes
    IN  IF DropRetries(log)
        THEN StartMethod(t, [n EXCEPT !.me.dropLog = log, !.me.dropWrites = writes],
                         "ptt_off", 0, "", "drop")
        ELSE AfterDrop(t, [n EXCEPT !.dropObs = DropSeen(t, n.me.own.kind, n.me.dropTx, log, writes)])

(***************************************************************************)
(* commands/radio.rs and commands/serial.rs: what follows a method         *)
(***************************************************************************)

\* A faulty variant of IsSerialError: every error tears the connection down
IsSerialError_AnyError(res) == ~res.ok

\* with_radio's arm Err(e @ Psk31Error::Serial(_))
IsSerialError(res) == ~res.ok /\ res.kind = "Serial"

\* with_radio's match on the method's result
WithRadioMatch(t, n, res) ==
    IF IsSerialError(res)
    THEN DropBegin(t, [n EXCEPT !.radio = NoRadio, !.me.err = res], n.radio, "wr_unlock")
    ELSE CommandReturn(t, n, res, 0)

\* A faulty variant of ConnectProbe: a failed probe is passed over
ConnectProbe_IgnoreError(t, n, res) ==
    IF n.me.ret = "probe_freq" THEN StartMethod(t, n, "get_mode", 0, "", "probe_mode")
    ELSE [n EXCEPT !.me.pc = "cs_lock"]

\* connect_serial's probes: get_frequency, then get_mode, `?` on each
ConnectProbe(t, n, res) ==
    IF ~res.ok THEN DropBegin(t, [n EXCEPT !.me.err = res], n.me.own, "cs_fail")
    ELSE IF n.me.ret = "probe_freq" THEN StartMethod(t, n, "get_mode", 0, "", "probe_mode")
    ELSE [n EXCEPT !.me.pc = "cs_lock"]

\* start_tx / stop_tx: an error of the PTT call is logged and ignored
TxPttDone(t, n, res) == CommandReturn(t, n, OkRes, 0)

\* A RadioControl method returned res to its caller
MethodDone(t, n, res) ==
    CASE n.me.ret = "with_radio" -> WithRadioMatch(t, n, res)
      [] n.me.ret = "drop"       -> DropNext(t, n, res)
      [] n.me.ret = "tx_ptt"     -> TxPttDone(t, n, res)
      [] OTHER                   -> ConnectProbe(t, n, res)

\* Thread t calls a RadioControl method on the adapter it works on
StartMethod(t, n, meth, hz, mode, ret) ==
    LET r == Target(n)
        arg == IF meth = "set_frequency" THEN hz ELSE mode
        m == [n EXCEPT !.me.meth = meth, !.me.hz = hz, !.me.mode = mode, !.me.ret = ret,
                       !.me.pending = <<>>, !.me.buf = <<>>, !.me.reads = 0,
                       !.me.writes = 0, !.me.ioErr = FALSE,
                       !.me.prevErr = r.after_err, !.me.akind = r.kind]
        unknown == ErrRes("Cat", "unknown_mode_name")
    IN  IF r.kind = "mock"
        THEN MethodDone(t, WithTarget(m, MockAfter(r, meth, hz, mode)), MockResult(r, meth))
        ELSE IF MethodWire(meth, arg) = <<>>
        THEN MethodDone(t, WithTarget(m, AdapterAfter(r, meth, unknown, FALSE)), unknown)
        ELSE [m EXCEPT !.me.pc = "sc_write"]

\* The command string of the method thread t is in
Wire(me) == MethodWire(me.meth, IF me.meth = "set_frequency" THEN me.hz ELSE me.mode)

(***************************************************************************)
(* Ft991aRadio::send_command, one serial call per step                     *)
(***************************************************************************)

\* The method of thread t ends: send_command returned sres / resp
MethodEnd(t, n, sres, resp, stamped) ==
    LET res == MethodResult(n.me.meth, sres, resp)
    IN  MethodDone(t, WithTarget(n, AdapterAfter(Target(n), n.me.meth, res, stamped)), res)

\* self.serial.write(cmd.as_bytes())
ScWrite(t) ==
    /\ th[t].pc = "sc_write"
    /\ LET n == [Here(t) EXCEPT !.me.writes = @ + 1]
       IN  \/ Commit(t, MethodEnd(t, [n EXCEPT !.me.ioErr = TRUE], WriteError, <<>>, FALSE))
           \/ \E rep \in Replies(th[t].meth, Wire(th[t])) :
                 Commit(t, [n EXCEPT !.me.pending = rep, !.me.pc = "sc_read"])

\* The read loop runs another iteration
LoopGoesOn(buf, reads) == ~Contains(buf, ";") /\ reads < RESPONSE_TIMEOUT_READS

\* After one iteration of the read loop
AfterRead(t, n) ==
    IF LoopGoesOn(n.me.buf, n.me.reads) THEN n
    ELSE LET tail == SendTail(Wire(n.me), n.me.buf)
         IN  MethodEnd(t, n, tail.res, tail.resp, tail.stamped)

\* self.serial.read(&mut buf[total..])
ScRead(t) ==
    /\ th[t].pc = "sc_read"
    /\ LET me == th[t]
           n == [Here(t) EXCEPT !.me.reads = @ + 1]
       IN  \/ /\ link = "raw" \/ me.pending = <<>>
              /\ IF me.buf = <<>>
                 THEN Commit(t, MethodEnd(t, [n EXCEPT !.me.ioErr = TRUE], ReadError, <<>>, FALSE))
                 ELSE Commit(t, AfterRead(t, [n EXCEPT !.me.ioErr = TRUE]))
           \/ /\ link = "raw" \/ me.pending = <<>>
              /\ Commit(t, AfterRead(t, n))
           \/ \E k \in ChunkLens(me.pending, READ_BUF_SIZE - Len(me.buf)) :
                 Commit(t, AfterRead(t, [n EXCEPT !.me.buf = @ \o SubSeq(me.pending, 1, k),
                                                  !.me.pending = SubSeq(me.pending, k + 1, Len(me.pending))]))

(***************************************************************************)
(* commands/radio.rs: the six radio commands, all through with_radio       *)
(***************************************************************************)

\* A faulty variant of CanLock: the radio mutex excludes nobody
CanLock_NoMutex(t) == TRUE

\* state.radio.lock() can return
CanLock(t) == radio_lock = NoThread

NotConnected == ErrRes("String", "radio_not_connected")

\* The arguments a method can be called with
MethodArgs(meth) ==
    CASE meth = "set_frequency" -> {[hz |-> f, mode |-> ""] : f \in SetFreqs}
      [] meth = "set_mode"      -> {[hz |-> 0, mode |-> m] : m \in ModeArgs}
      [] OTHER                  -> {[hz |-> 0, mode |-> ""]}

\* with_radio: state.radio.lock(), guard.as_mut().ok_or(..)?, f(radio); and,
\* after a Serial error, the take of the port name and the event
WithRadio(t) ==
    CASE th[t].pc = "idle" ->
            /\ CanLock(t)
            /\ \E meth \in Methods : \E a \in MethodArgs(meth) :
                 LET n == [Here(t) EXCEPT !.lock = t, !.me.cmd = meth, !.me.meth = meth,
                                          !.me.hz = a.hz, !.me.mode = a.mode,
                                          !.me.tgt = "slot", !.me.port0 = port_name]
                 IN  IF radio.kind = "none"
                     THEN Commit(t, CommandReturn(t, n, NotConnected, 0))
                     ELSE Commit(t, StartMethod(t, n, meth, a.hz, a.mode, "with_radio"))
      [] th[t].pc = "wr_port" ->
            Commit(t, CommandReturn(t, [Here(t) EXCEPT !.port = NoPort], th[t].err, 1))
      [] OTHER -> FALSE

(***************************************************************************)
(* commands/tx.rs: the PTT calls of start_tx and stop_tx                   *)
(***************************************************************************)

\* state.radio.lock().ok().and_then(|mut guard| guard.as_mut().map(|r| r.ptt_..()))
TxPtt(t, cmd, meth) ==
    /\ th[t].pc = "idle"
    /\ CanLock(t)
    /\ LET n == [Here(t) EXCEPT !.lock = t, !.me.cmd = cmd, !.me.tgt = "slot",
                                !.me.port0 = port_name]
       IN  IF radio.kind = "none"
           THEN Commit(t, CommandReturn(t, n, OkRes, 0))
           ELSE Commit(t, StartMethod(t, n, meth, 0, "", "tx_ptt"))

\* start_tx: "Try to activate PTT (ignore errors if no radio connected)"
StartTxPtt(t) == TxPtt(t, "start_tx", "ptt_on")

\* stop_tx: "PTT OFF (ignore errors if no radio)"
StopTxPtt(t) == TxPtt(t, "stop_tx", "ptt_off")

(***************************************************************************)
(* commands/serial.rs: connect_serial and disconnect_serial                *)
(***************************************************************************)

OpenError == ErrRes("Serial", "open_failed")

\* connect_serial up to the first probe
ConnectOpen(t) ==
    /\ th[t].pc = "idle"
    /\ \E p \in Ports :
         LET n == [Here(t) EXCEPT !.me.cmd = "connect_serial", !.me.tgt = "own",
                                  !.me.port0 = port_name]
         IN  IF mock_mode
             THEN Commit(t, StartMethod(t, [n EXCEPT !.me.own = MockRadio_new, !.me.port = "mock"],
                                        "get_frequency", 0, "", "probe_freq"))
             ELSE \/ Commit(t, CommandReturn(t, n, OpenError, 0))
                  \/ Commit(t, StartMethod(t, [n EXCEPT !.me.own = Ft991aRadio_new, !.me.port = p],
                                           "get_frequency", 0, "", "probe_freq"))

\* state.radio.lock(); *radio_slot = Some(radio), which drops the old value
ConnectStore(t) ==
    /\ th[t].pc = "cs_lock"
    /\ CanLock(t)
    /\ Commit(t, DropBegin(t, [Here(t) EXCEPT !.lock = t, !.radio = th[t].own], radio, "cs_port"))

\* *state.serial_port_name.lock() = Some(display_port); Ok(info)
ConnectPort(t) ==
    /\ th[t].pc = "cs_port"
    /\ Commit(t, CommandReturn(t, [Here(t) EXCEPT !.port = th[t].port], OkRes, 0))

\* state.radio.lock(); *radio_slot = None, which drops the old value
DisconnectLock(t) ==
    /\ th[t].pc = "idle"
    /\ CanLock(t)
    /\ Commit(t, DropBegin(t, [Here(t) EXCEPT !.lock = t, !.radio = NoRadio,
                                              !.me.cmd = "disconnect_serial",
                                              !.me.port0 = port_name],
                           radio, "ds_port"))

\* *state.serial_port_name.lock() = None; Ok(())
DisconnectPort(t) ==
    /\ th[t].pc = "ds_port"
    /\ Commit(t, CommandReturn(t, [Here(t) EXCEPT !.port = NoPort], OkRes, 0))

(***************************************************************************)
(* cat/mod.rs, cat/encode.rs, cat/decode.rs: commands and pure translation *)
(***************************************************************************)

\* CatCommand
Cmd(op) == [op |-> op, hz |-> 0, mode |-> "", watts |-> 0]

SetFrequencyA(hz) == [Cmd("SetFrequencyA") EXCEPT !.hz = hz]

SetMode(name) == [Cmd("SetMode") EXCEPT !.mode = name]

SetTxPower(w) == [Cmd("SetTxPower") EXCEPT !.watts = w]

\* Psk31Result<CatResponse>: typ is the CatResponse variant, "" for an Err
CatErr(c) == [ok |-> FALSE, cause |-> c, typ |-> "", hz |-> 0, mode |-> "", watts |-> 0]

CatOk(typ) == [ok |-> TRUE, cause |-> "", typ |-> typ, hz |-> 0, mode |-> "", watts |-> 0]

Ack == CatOk("Ack")

FrequencyHz(hz) == [CatOk("FrequencyHz") EXCEPT !.hz = hz]

Mode(name) == [CatOk("Mode") EXCEPT !.mode = name]

\* The call does not return: a string slice panics
CatPanic == [ok |-> FALSE, cause |-> "panic", typ |-> "panic", hz |-> 0, mode |-> "", watts |-> 0]

\* U+00E9 in UTF-8, two bytes
EAcute == <<"xC3", "xA9">>

\* Bytes that continue a UTF-8 character
Continuation == {"xA9"}

\* &s[a..b] panics unless a and b are character boundaries
SlicePanics(s, a, b) ==
    \/ a < Len(s) /\ s[a + 1] \in Continuation
    \/ b < Len(s) /\ s[b + 1] \in Continuation

TxPower(w) == [CatOk("TxPower") EXCEPT !.watts = w]

\* A faulty variant of CAT_MODE_TABLE: DATA-FM is given the code of DATA-USB
CAT_MODE_TABLE_Dup ==
    << <<"1", "LSB">>,      <<"2", "USB">>,      <<"3", "CW">>,       <<"4", "FM">>,
       <<"5", "AM">>,       <<"6", "RTTY-LSB">>, <<"7", "CW-R">>,     <<"8", "DATA-LSB">>,
       <<"9", "RTTY-USB">>, <<"C", "DATA-FM">>,  <<"B", "FM-N">>,     <<"C", "DATA-USB">>,
       <<"D", "AM-N">>,     <<"E", "C4FM">> >>

\* cat::MODE_TABLE (cat/mod.rs), the table of encode and decode: (CAT code,
\* name), entry for entry the table of the adapter
CAT_MODE_TABLE ==
    << <<"1", "LSB">>,      <<"2", "USB">>,      <<"3", "CW">>,       <<"4", "FM">>,
       <<"5", "AM">>,       <<"6", "RTTY-LSB">>, <<"7", "CW-R">>,     <<"8", "DATA-LSB">>,
       <<"9", "RTTY-USB">>, <<"A", "DATA-FM">>,  <<"B", "FM-N">>,     <<"C", "DATA-USB">>,
       <<"D", "AM-N">>,     <<"E", "C4FM">> >>

\* First index of CAT_MODE_TABLE whose column col holds v, or 0
ModeIndex(col, v) ==
    IF \E i \in 1..Len(CAT_MODE_TABLE) : CAT_MODE_TABLE[i][col] = v
    THEN CHOOSE i \in 1..Len(CAT_MODE_TABLE) :
            CAT_MODE_TABLE[i][col] = v /\ \A j \in 1..(i - 1) : CAT_MODE_TABLE[j][col] # v
    ELSE 0

\* encode
encode(cmd) ==
    CASE cmd.op = "GetFrequencyA" -> <<"F", "A", ";">>
      [] cmd.op = "SetFrequencyA" -> <<"F", "A">> \o ZeroPad(cmd.hz, 11) \o <<";">>
      [] cmd.op = "GetMode"       -> <<"M", "D", "0", ";">>
      [] cmd.op = "SetMode"       ->
            LET i == ModeIndex(2, cmd.mode)
            IN  <<"M", "D", "0", IF i = 0 THEN "C" ELSE CAT_MODE_TABLE[i][1], ";">>
      [] cmd.op = "PttOff"        -> <<"T", "X", "0", ";">>
      [] cmd.op = "PttOn"         -> <<"T", "X", "1", ";">>
      [] cmd.op = "GetTxPower"    -> <<"P", "C", ";">>
      [] cmd.op = "SetTxPower"    -> <<"P", "C">> \o ZeroPad(cmd.watts, 3) \o <<";">>

\* decode.rs parse_frequency (no band check here)
decode_parse_frequency(response) ==
    LET trimmed == TrimEndMatches(Trim(response), ";")
    IN  IF ~StartsWith(trimmed, <<"F", "A">>) \/ Len(trimmed) < 13
        THEN CatErr("invalid_frequency_response")
        ELSE IF SlicePanics(trimmed, 2, 13) THEN CatPanic
        ELSE LET hz == ParseU64(SubSeq(trimmed, 3, 13))
             IN  IF hz < 0 THEN CatErr("parse_frequency_failed") ELSE FrequencyHz(hz)

\* decode.rs parse_mode
decode_parse_mode(response) ==
    LET trimmed == TrimEndMatches(Trim(response), ";")
    IN  IF ~StartsWith(trimmed, <<"M", "D", "0">>) \/ Len(trimmed) < 4
        THEN CatErr("invalid_mode_response")
        ELSE IF SlicePanics(trimmed, 3, 4) THEN CatPanic
        ELSE LET i == ModeIndex(1, trimmed[4])
             IN  IF i = 0 THEN CatErr("unknown_mode_code") ELSE Mode(CAT_MODE_TABLE[i][2])

\* decode.rs parse_tx_power
parse_tx_power(response) ==
    LET trimmed == TrimEndMatches(Trim(response), ";")
    IN  IF ~StartsWith(trimmed, <<"P", "C">>) \/ Len(trimmed) < 5
        THEN CatErr("invalid_tx_power_response")
        ELSE IF SlicePanics(trimmed, 2, 5) THEN CatPanic
        ELSE LET w == ParseU64(SubSeq(trimmed, 3, 5))
             IN  IF w < 0 THEN CatErr("parse_tx_power_failed") ELSE TxPower(w)

\* decode.rs expect_ack
expect_ack(response) ==
    LET trimmed == Trim(response)
    IN  IF trimmed = <<";">> \/ trimmed = <<>> THEN Ack ELSE CatErr("expected_ack")

\* decode
decode(response, cmd) ==
    IF TrimEndMatches(response, ";") = <<"?">> \/ response = <<"?">>
    THEN CatErr("nak")
    ELSE CASE cmd.op = "GetFrequencyA" -> decode_parse_frequency(response)
           [] cmd.op = "GetMode"       -> decode_parse_mode(response)
           [] cmd.op = "GetTxPower"    -> parse_tx_power(response)
           [] OTHER                    -> expect_ack(response)

(***************************************************************************)
(* cat/session.rs: CatSession::execute, one serial call per step           *)
(***************************************************************************)

COMMAND_DELAY_MS == 50

READ_CHUNK_SIZE == 64

CAT_RESPONSE_TIMEOUT_READS == 5

\* last_command_time = None
Never == -1

\* The clock stops here
MaxTime == 100

\* The clock's step
TickMs == COMMAND_DELAY_MS \div 2

SetWatts == {50}

CatCommands ==
    {Cmd(op) : op \in {"GetFrequencyA", "GetMode", "PttOn", "PttOff", "GetTxPower"}}
    \cup {SetFrequencyA(f) : f \in SetFreqs}
    \cup {SetMode(m) : m \in ModeArgs}
    \cup {SetTxPower(w) : w \in SetWatts}

\* Length of the long response of the regression test
LongLen == 65

RECURSIVE Repeat(_, _)
Repeat(s, k) == IF k <= 0 THEN <<>> ELSE s \o Repeat(s, k - 1)

\* "MD0;" x 15 + "MD0C;" (the regression test's response), and a frequency
\* report padded to the same length whose only ';' is its last byte
LongResponses ==
    [GetMode |-> Repeat(<<"M", "D", "0", ";">>, 15) \o <<"M", "D", "0", "C", ";">>,
     GetFrequencyA |-> <<"F", "A">> \o Zeros(LongLen - 3) \o <<";">>]

\* The well-formed responses of the radio to a command
Responses(cmd) ==
    CASE cmd.op = "GetFrequencyA" -> {<<"F", "A">> \o FreqText[f] \o <<";">> : f \in VfoFreqs}
      [] cmd.op = "GetMode"       -> {<<"M", "D", "0", c, ";">> : c \in ModeCodes}
      [] cmd.op = "GetTxPower"    -> {<<"P", "C">> \o ZeroPad(w, 3) \o <<";">> : w \in SetWatts}
      [] OTHER                    -> {<<";">>}

\* What the link delivers after the command was written
SessionReplies(cmd) ==
    {<<>>, Nak, <<BadByte, ";">>} \cup Responses(cmd)
    \cup {encode(cmd) \o r : r \in Responses(cmd)}
    \cup (IF cmd.op \in DOMAIN LongResponses THEN {LongResponses[cmd.op]} ELSE {})

NoPrev == [began |-> Never, pbegan |-> Never]

\* execute returns res (the caller of this operator has set s_writes')
SessionReturn(res, buf, pending, chunks, stamp) ==
    /\ s_pc' = "idle"
    /\ last_command_time' = stamp
    /\ s_prev' = [s_prev EXCEPT !.pbegan = Never]
    /\ s_obs' = [ev |-> "ret", cmd |-> s_cmd, res |-> res, buf |-> buf,
                 reply |-> buf \o pending, chunks |-> chunks, writes |-> s_writes']
    /\ s_buf' = <<>> /\ s_pending' = <<>> /\ s_reads' = 0 /\ s_chunks' = <<>>
    /\ UNCHANGED <<now, s_cmd>>

\* execute up to the write: ensure_command_delay (the sleep lasts until
\* min_delay has elapsed), then encode
SxCall ==
    /\ s_pc = "idle"
    /\ \E cmd \in CatCommands :
         LET wake == IF last_command_time # Never /\ now - last_command_time < COMMAND_DELAY_MS
                     THEN last_command_time + COMMAND_DELAY_MS
                     ELSE now
         IN  /\ wake <= MaxTime
             /\ now' = wake
             /\ s_cmd' = cmd
             /\ s_pc' = "write"
             /\ s_prev' = [began |-> now, pbegan |-> s_prev.began]
             /\ s_obs' = NoObs
             /\ s_writes' = 0
             /\ UNCHANGED <<last_command_time, s_pending, s_buf, s_reads, s_chunks>>
    /\ UNCHANGED notSessVars

\* self.serial.write(wire.as_bytes()) with `?`
SxWrite ==
    /\ s_pc = "write"
    /\ s_writes' = s_writes + 1
    /\ \/ SessionReturn(CatErr("write_failed"), <<>>, <<>>, <<>>, last_command_time)
       \/ \E rep \in SessionReplies(s_cmd) :
            /\ s_pending' = rep
            /\ s_pc' = "read"
            /\ s_obs' = [ev |-> "write", at |-> now, pbegan |-> s_prev.pbegan]
            /\ s_prev' = [s_prev EXCEPT !.pbegan = Never]
            /\ UNCHANGED <<now, last_command_time, s_cmd, s_buf, s_reads, s_chunks>>
    /\ UNCHANGED notSessVars

\* After read_until_semicolon: the timestamp, `raw?`, the echo strip, decode
SessionTail(buf, pending, chunks, early) ==
    LET res == IF early # "" THEN CatErr(early)
               ELSE IF buf = <<>> THEN CatErr("no_response")
               ELSE IF ~IsUtf8(buf) THEN CatErr("invalid_utf8")
               ELSE decode(StripPrefixOr(buf, encode(s_cmd)), s_cmd)
    IN  SessionReturn(res, buf, pending, chunks, now)

\* After one iteration of read_until_semicolon's loop
SessionAfterRead(buf, pending, chunks) ==
    IF ~Contains(buf, ";") /\ Len(chunks) < CAT_RESPONSE_TIMEOUT_READS
    THEN /\ s_buf' = buf /\ s_pending' = pending /\ s_chunks' = chunks
         /\ s_reads' = Len(chunks)
         /\ s_obs' = NoObs
         /\ UNCHANGED <<now, last_command_time, s_pc, s_cmd, s_prev>>
    ELSE SessionTail(buf, pending, chunks, "")

\* The Err arm of the read loop: `if buf.is_empty()`
ReadErrorFatal_Always(buf) == TRUE

ReadErrorFatal(buf) == buf = <<>>

\* self.serial.read(&mut chunk)
SxRead ==
    /\ s_pc = "read"
    /\ UNCHANGED s_writes
    /\ \/ IF ReadErrorFatal(s_buf)
          THEN SessionTail(s_buf, s_pending, Append(s_chunks, -1), "read_failed")
          ELSE SessionAfterRead(s_buf, s_pending, Append(s_chunks, -1))
       \/ SessionAfterRead(s_buf, s_pending, Append(s_chunks, 0))
       \/ \E k \in ChunkLens(s_pending, READ_CHUNK_SIZE) :
            SessionAfterRead(s_buf \o SubSeq(s_pending, 1, k),
                             SubSeq(s_pending, k + 1, Len(s_pending)),
                             Append(s_chunks, k))
    /\ UNCHANGED notSessVars

\* Time passes
Tick ==
    /\ now + TickMs <= MaxTime
    /\ now' = now + TickMs
    /\ s_obs' = NoObs
    /\ UNCHANGED <<last_command_time, s_pc, s_cmd, s_pending, s_buf, s_reads, s_writes, s_chunks, s_prev>>
    /\ UNCHANGED notSessVars

SessInit ==
    /\ now = 0
    /\ last_command_time = Never
    /\ s_pc = "idle"
    /\ s_cmd = Cmd("GetFrequencyA")
    /\ s_pending = <<>>
    /\ s_buf = <<>>
    /\ s_reads = 0
    /\ s_writes = 0
    /\ s_chunks = <<>>
    /\ s_prev = NoPrev
    /\ s_obs = NoObs

(***************************************************************************)
(* Single adapter calls: get_frequency on a frequency report, set_tx_power *)
(***************************************************************************)

\* Largest TX power value tried, besides the ones that need a fourth digit
MaxWatts == 110

TxPowers == 0..MaxWatts \cup {255, 999, 1000}

\* The edges of every amateur band, their neighbours, and 0
ReportedFreqs ==
    {0} \cup UNION {{AMATEUR_BANDS_HZ[i][1] - 1, AMATEUR_BANDS_HZ[i][1], AMATEUR_BANDS_HZ[i][1] + 1,
                     AMATEUR_BANDS_HZ[i][2] - 1, AMATEUR_BANDS_HZ[i][2], AMATEUR_BANDS_HZ[i][2] + 1}
                        : i \in 1..Len(AMATEUR_BANDS_HZ)}

NoCall == [fn |-> "", hz |-> 0, watts |-> 0, done |-> FALSE, res |-> OkRes, wire |-> <<>>]

\* Ft991aRadio::get_frequency when the radio reports hz: send_command("FA;")
\* returns the report, parse_frequency decides
GetFrequencyCall ==
    /\ fx.fn = "get_frequency" /\ ~fx.done
    /\ LET wire == MethodWire("get_frequency", 0)
           st == SendTail(wire, <<"F", "A">> \o ZeroPad(fx.hz, 11) \o <<";">>)
       IN  fx' = [fx EXCEPT !.done = TRUE,
                            !.res = MethodResult("get_frequency", st.res, st.resp),
                            !.wire = wire]
    /\ UNCHANGED notCallVars

\* Ft991aRadio::set_tx_power up to its serial write: the power is validated
\* (at most 100 W) before anything is sent, then SetTxPower(watts) is encoded
\* and written. wire is what was written, <<>> when nothing was; the result
\* of an accepted call is not modelled further (it depends on the reply).
set_tx_power(watts) ==
    IF watts > 100
    THEN [res |-> ErrRes("Cat", "tx_power_too_high"), wire |-> <<>>]
    ELSE [res |-> OkRes, wire |-> encode(SetTxPower(watts))]

SetTxPowerCall ==
    /\ fx.fn = "set_tx_power" /\ ~fx.done
    /\ LET r == set_tx_power(fx.watts)
       IN  fx' = [fx EXCEPT !.done = TRUE, !.res = r.res, !.wire = r.wire]
    /\ UNCHANGED notCallVars

CallIdle == fx = NoCall

CallInit ==
    fx \in {[NoCall EXCEPT !.fn = "get_frequency", !.hz = f] : f \in ReportedFreqs}
           \cup {[NoCall EXCEPT !.fn = "set_tx_power", !.watts = w] : w \in TxPowers}

(***************************************************************************)
(* commands/tx.rs: start_tx, stop_tx and the TX thread. The handlers are   *)
(* plain #[tauri::command] functions: one runs at a time.                  *)
(***************************************************************************)

\* Largest number of encoded samples of a transmission
MaxSamples == 3

\* Largest output buffer the device hands to the callback
MaxOutBuf == 2

NoTxThread ==
    [pc |-> "none", pos |-> 0, total |-> 0, done |-> FALSE, audio |-> FALSE,
     log |-> <<>>, keyed |-> FALSE, key1 |-> "none"]

TxIdle ==
    /\ tx_abort = FALSE
    /\ tx_thread = "none"
    /\ tx_cmd = [pc |-> "idle", joined |-> FALSE]
    /\ txt = NoTxThread
    /\ tx_obs = NoObs

\* The TX thread is between its spawn and its return
TxRunning == txt.pc \notin {"none", "exited"}

\* app.emit("tx-status", ..)
Emit(log, status) ==
    IF log # <<>> /\ log[Len(log)] = "transmitting" /\ status = "transmitting"
    THEN log
    ELSE Append(log, status)

\* What a PTT call of start_tx / stop_tx may return on the bound adapter
\* (every error send_command can produce; MockRadio never fails)
PttResults == {OkRes, WriteError, ReadError, ErrRes("Cat", "no_response")}

\* state.radio.lock().ok().and_then(|mut guard| guard.as_mut().map(|r| r.ptt_..()))
\* with res the outcome of the call: the adapter afterwards
RadioAfterPtt(meth, res) ==
    CASE radio.kind = "none" -> radio
      [] radio.kind = "mock" -> MockAfter(radio, meth, 0, "")
      [] OTHER               -> AdapterAfter(radio, meth, res, res.ok)

\* start_tx up to thread::spawn: the checks, the abort flag, ptt_on, the spawn
StartTx ==
    /\ tx_cmd.pc = "idle"
    /\ \/ /\ tx_thread = "some"
          /\ tx_obs' = [ev |-> "start_ret", err |-> "Already transmitting"]
          /\ UNCHANGED <<radio, tx_abort, tx_thread, tx_cmd, txt>>
       \/ /\ tx_thread = "none"
          /\ tx_obs' = [ev |-> "start_ret", err |-> "Nothing to transmit"]
          /\ UNCHANGED <<radio, tx_abort, tx_thread, tx_cmd, txt>>
       \/ /\ tx_thread = "none"
          /\ \E n \in 1..MaxSamples, res \in PttResults :
               /\ tx_abort' = FALSE
               /\ radio' = RadioAfterPtt("ptt_on", res)
               /\ txt' = [NoTxThread EXCEPT !.pc = "sleep", !.total = n,
                                            !.keyed = radio.kind = "mock" \/ (radio.kind = "ft991a" /\ res.ok)]
               /\ tx_cmd' = [pc |-> "st_store", joined |-> FALSE]
               /\ tx_obs' = NoObs
               /\ UNCHANGED tx_thread
    /\ UNCHANGED notTxVars

\* state.tx_thread.lock().unwrap().replace(handle); Ok(())
StartTxStore ==
    /\ tx_cmd.pc = "st_store"
    /\ tx_thread' = "some"
    /\ tx_cmd' = [tx_cmd EXCEPT !.pc = "idle"]
    /\ tx_obs' = [ev |-> "start_ret", err |-> ""]
    /\ UNCHANGED <<radio, tx_abort, txt>>
    /\ UNCHANGED notTxVars

\* stop_tx: state.tx_abort.store(true)
StopTxAbort ==
    /\ tx_cmd.pc = "idle"
    /\ tx_abort' = TRUE
    /\ tx_cmd' = [pc |-> "sp_join", joined |-> FALSE]
    /\ tx_obs' = NoObs
    /\ UNCHANGED <<radio, tx_thread, txt>>
    /\ UNCHANGED notTxVars

\* A faulty variant of JoinReturns: join does not wait for the thread
JoinReturns_AtOnce == TRUE

\* handle.join() returns once the thread has returned
JoinReturns == ~TxRunning

\* stop_tx: if let Some(handle) = tx_thread.lock().unwrap().take() { handle.join() }
StopTxJoin ==
    /\ tx_cmd.pc = "sp_join"
    /\ tx_thread = "some" => JoinReturns
    /\ tx_thread' = "none"
    /\ tx_cmd' = [pc |-> "sp_ptt", joined |-> tx_thread = "some"]
    /\ tx_obs' = NoObs
    /\ UNCHANGED <<radio, tx_abort, txt>>
    /\ UNCHANGED notTxVars

\* stop_tx: ptt_off under the radio mutex (an error is logged), Ok(())
StopTxPttOff ==
    /\ tx_cmd.pc = "sp_ptt"
    /\ \E res \in PttResults :
         /\ radio' = RadioAfterPtt("ptt_off", res)
         /\ tx_obs' = [ev |-> "stop_ret", running |-> TxRunning, abort |-> tx_abort,
                       joined |-> tx_cmd.joined, called |-> radio.kind # "none",
                       res |-> IF radio.kind = "ft991a" THEN res ELSE OkRes]
    /\ tx_cmd' = [pc |-> "idle", joined |-> FALSE]
    /\ UNCHANGED <<tx_abort, tx_thread, txt>>
    /\ UNCHANGED notTxVars

\* A step of the TX thread or of its output stream
TxThreadStep(next) ==
    /\ txt' = next
    /\ tx_obs' = NoObs
    /\ UNCHANGED <<radio, tx_abort, tx_thread, tx_cmd>>
    /\ UNCHANGED notTxVars

\* run_tx_thread: the 50 ms sleep and the first 'transmitting' event
TxThreadBegin ==
    /\ txt.pc = "sleep"
    /\ TxThreadStep([txt EXCEPT !.pc = "start", !.log = Emit(@, "transmitting")])

\* run_tx_thread: audio_output.start(..), and the return when it fails
TxAudioStart ==
    /\ txt.pc = "start"
    /\ \/ TxThreadStep([txt EXCEPT !.pc = "loop", !.audio = TRUE])
       \/ TxThreadStep([txt EXCEPT !.pc = "exited", !.log = Emit(@, "error")])

\* run_tx_thread: one iteration of the loop
TxLoop ==
    /\ txt.pc = "loop"
    /\ IF tx_abort
       THEN TxThreadStep([txt EXCEPT !.pc = "exited", !.audio = FALSE, !.log = Emit(@, "aborted")])
       ELSE IF txt.done
       THEN TxThreadStep([txt EXCEPT !.pc = "drain"])
       ELSE TxThreadStep([txt EXCEPT !.log = Emit(@, "transmitting")])

\* run_tx_thread: after the 100 ms sleep: stop, 'complete', return
TxDrained ==
    /\ txt.pc = "drain"
    /\ TxThreadStep([txt EXCEPT !.pc = "exited", !.audio = FALSE, !.log = Emit(@, "complete")])

\* A faulty variant of CallbackDrained: the callback never reports the end
CallbackDrained_Never(remaining) == FALSE

\* The output callback: `if remaining == 0`
CallbackDrained(remaining) == remaining = 0

\* A faulty variant of copy_len: the whole buffer is filled from the samples
copy_len_WholeBuffer(len, remaining) == len

\* let copy_len = output_buf.len().min(remaining)
copy_len(len, remaining) == IF len < remaining THEN len ELSE remaining

\* What the callback writes into a buffer of len samples at position pos:
\* sample n of the vector is written as n, silence (0.0) as 0
FillBuffer(pos, n, len) == [i \in 1..len |-> IF i <= n THEN pos + i ELSE 0]

\* The output callback, invoked by the device with a buffer of len samples
TxCallback ==
    /\ txt.audio
    /\ \E len \in 1..MaxOutBuf :
         LET remaining == IF txt.total > txt.pos THEN txt.total - txt.pos ELSE 0
             n == copy_len(len, remaining)
         IN  /\ txt' = IF CallbackDrained(remaining)
                       THEN [txt EXCEPT !.done = TRUE]
                       ELSE [txt EXCEPT !.pos = @ + n,
                               !.key1 = IF @ # "none" THEN @
                                        ELSE IF radio.is_transmitting THEN "keyed" ELSE "unkeyed"]
             /\ tx_obs' = [ev |-> "callback", before |-> txt.pos,
                           out |-> IF CallbackDrained(remaining)
                                   THEN FillBuffer(txt.pos, 0, len)
                                   ELSE FillBuffer(txt.pos, n, len)]
    /\ UNCHANGED <<radio, tx_abort, tx_thread, tx_cmd>>
    /\ UNCHANGED notTxVars

(***************************************************************************)
(* commands/audio.rs: start / stop of the audio stream and the audio (DSP) *)
(* thread. The handlers are plain #[tauri::command] functions.             *)
(***************************************************************************)

\* Audio threads spawned in a run
MaxAudioThreads == 2

AudioThreads == 1..MaxAudioThreads

NoDevice == ""

AudioDevices == {"usb-codec"}

\* A thread not spawned yet. input: "off" (no stream), "on" (capturing),
\* "dead" (the stream died: is_running() is false)
NoDsp ==
    [pc |-> "none", device_lost |-> FALSE, input |-> "off", log |-> <<>>, stopSeen |-> FALSE]

AudIdle ==
    /\ audio_running = FALSE
    /\ rx_running = FALSE
    /\ audio_thread = 0
    /\ audio_device_name = NoDevice
    /\ a_cmd = [pc |-> "idle", k |-> 0]
    /\ dsp = [k \in AudioThreads |-> NoDsp]
    /\ a_obs = NoObs

\* Audio thread k is between its spawn and its return
DspRunning(k) == dsp[k].pc \notin {"none", "exited"}

\* Audio thread k is inside the DSP loop
InDspLoop(k) == dsp[k].pc \in {"top", "body"}

\* start_audio_stream up to thread::spawn
StartAudio ==
    /\ a_cmd.pc = "idle"
    /\ IF audio_running
       THEN /\ a_obs' = [ev |-> "start_ret", err |-> "Audio stream already running"]
            /\ UNCHANGED <<audio_running, rx_running, audio_thread, audio_device_name, a_cmd, dsp>>
       ELSE \E k \in AudioThreads, d \in AudioDevices :
              /\ dsp[k].pc = "none" /\ \A j \in 1..(k - 1) : dsp[j].pc # "none"
              /\ audio_running' = TRUE
              /\ audio_device_name' = d
              /\ dsp' = [dsp EXCEPT ![k].pc = "begin"]
              /\ a_cmd' = [pc |-> "sa_store", k |-> k]
              /\ a_obs' = NoObs
              /\ UNCHANGED <<rx_running, audio_thread>>
    /\ UNCHANGED notAudVars

\* state.audio_thread.lock().unwrap().replace(handle); Ok(())
StartAudioStore ==
    /\ a_cmd.pc = "sa_store"
    /\ audio_thread' = a_cmd.k
    /\ a_cmd' = [pc |-> "idle", k |-> 0]
    /\ a_obs' = [ev |-> "start_ret", err |-> ""]
    /\ UNCHANGED <<audio_running, rx_running, audio_device_name, dsp>>
    /\ UNCHANGED notAudVars

\* stop_audio_stream: rx_running.store(false); audio_running.store(false)
StopAudioFlags ==
    /\ a_cmd.pc = "idle"
    /\ rx_running' = FALSE
    /\ audio_running' = FALSE
    /\ a_cmd' = [pc |-> "sp_join", k |-> 0]
    /\ a_obs' = NoObs
    /\ UNCHANGED <<audio_thread, audio_device_name, dsp>>
    /\ UNCHANGED notAudVars

\* stop_audio_stream: if let Some(handle) = audio_thread.lock().unwrap().take()
\* { handle.join() }; Ok(())
StopAudioJoin ==
    /\ a_cmd.pc = "sp_join"
    /\ audio_thread # 0 => dsp[audio_thread].pc = "exited"
    /\ audio_thread' = 0
    /\ a_cmd' = [pc |-> "idle", k |-> 0]
    /\ a_obs' = [ev |-> "stop_ret", joined |-> audio_thread]
    /\ UNCHANGED <<audio_running, rx_running, audio_device_name, dsp>>
    /\ UNCHANGED notAudVars

\* start_rx
StartRx ==
    /\ a_cmd.pc = "idle"
    /\ IF ~audio_running
       THEN a_obs' = [ev |-> "rx_ret", err |-> "Audio stream not running"] /\ UNCHANGED rx_running
       ELSE a_obs' = [ev |-> "rx_ret", err |-> ""] /\ rx_running' = TRUE
    /\ UNCHANGED <<audio_running, audio_thread, audio_device_name, a_cmd, dsp>>
    /\ UNCHANGED notAudVars

\* stop_rx
StopRx ==
    /\ a_cmd.pc = "idle"
    /\ rx_running' = FALSE
    /\ a_obs' = [ev |-> "rx_ret", err |-> ""]
    /\ UNCHANGED <<audio_running, audio_thread, audio_device_name, a_cmd, dsp>>
    /\ UNCHANGED notAudVars

\* A step of audio thread k
DspStep(k, next) ==
    /\ dsp' = [dsp EXCEPT ![k] = next]
    /\ a_obs' = NoObs
    /\ UNCHANGED <<rx_running, audio_thread, a_cmd>>
    /\ UNCHANGED notAudVars

\* run_audio_thread up to the loop: the 'running' event, audio_input.start(..),
\* and the return when the capture cannot start
DspBegin(k) ==
    /\ dsp[k].pc = "begin"
    /\ \/ /\ DspStep(k, [dsp[k] EXCEPT !.pc = "top", !.input = "on", !.log = Append(@, "running")])
          /\ UNCHANGED <<audio_running, audio_device_name>>
       \/ /\ DspStep(k, [dsp[k] EXCEPT !.pc = "exited",
                                        !.log = @ \o <<"running", "error: capture">>])
          /\ audio_running' = FALSE
          /\ UNCHANGED audio_device_name

\* while running.load(Ordering::SeqCst)
DspLoopTop(k) ==
    /\ dsp[k].pc = "top"
    /\ IF audio_running
       THEN DspStep(k, [dsp[k] EXCEPT !.pc = "body"])
       ELSE DspStep(k, [dsp[k] EXCEPT !.pc = "shutdown", !.stopSeen = a_cmd.pc = "sp_join"])
    /\ UNCHANGED <<audio_running, audio_device_name>>

\* One iteration of the loop: the is_running() check, then the drain, the
\* decoder, the FFT frames, the 5 ms sleep
DspBody(k) ==
    /\ dsp[k].pc = "body"
    /\ IF dsp[k].input # "on"
       THEN /\ audio_running' = FALSE
            /\ DspStep(k, [dsp[k] EXCEPT !.pc = "shutdown", !.device_lost = TRUE])
       ELSE /\ DspStep(k, [dsp[k] EXCEPT !.pc = "top"])
            /\ UNCHANGED audio_running
    /\ UNCHANGED audio_device_name

\* A faulty variant of ExitStatus: every thread reports 'stopped'
ExitStatus_AlwaysStopped(device_lost) == "stopped"

\* The final audio-status event
ExitStatus(device_lost) == IF device_lost THEN "error: audio device lost" ELSE "stopped"

\* After the loop: audio_input.stop(), the device name, the final event
DspShutdown(k) ==
    /\ dsp[k].pc = "shutdown"
    /\ DspStep(k, [dsp[k] EXCEPT !.pc = "exited", !.input = "off",
                                 !.log = Append(@, ExitStatus(dsp[k].device_lost))])
    /\ audio_device_name' = NoDevice
    /\ UNCHANGED audio_running

\* The capture stream of thread k dies (the device was removed)
DeviceLost(k) ==
    /\ InDspLoop(k) /\ dsp[k].input = "on"
    /\ DspStep(k, [dsp[k] EXCEPT !.input = "dead"])
    /\ UNCHANGED <<audio_running, audio_device_name>>

(***************************************************************************)
(* commands/audio.rs: the ring buffer between the capture callback and the *)
(* DSP loop                                                                *)
(***************************************************************************)

\* Capacity of the ring buffer in this model (HeapRb::<f32>::new(8192) in
\* the program)
RingCapacity == 3

\* Samples the capture callback is given in a run; sample n is the n-th
MaxOffered == 8

RingIdle ==
    /\ rb = <<>>
    /\ rb_next = 1
    /\ rb_popped = <<>>
    /\ rb_obs = NoObs

\* A faulty variant of TryPush: on a full buffer the oldest sample gives way
TryPush_Overwrite(buf, x) ==
    IF Len(buf) < RingCapacity
    THEN [buf |-> Append(buf, x), ok |-> TRUE]
    ELSE [buf |-> Append(Tail(buf), x), ok |-> TRUE]

\* producer.try_push(sample): Err(sample) on a full buffer, which is left as it is
TryPush(buf, x) ==
    IF Len(buf) < RingCapacity
    THEN [buf |-> Append(buf, x), ok |-> TRUE]
    ELSE [buf |-> buf, ok |-> FALSE]

\* The capture callback, for one sample of its slice: let _ = producer.try_push(sample)
CapturePush ==
    /\ rb_next <= MaxOffered
    /\ LET r == TryPush(rb, rb_next)
       IN  /\ rb' = r.buf
           /\ rb_obs' = [ev |-> "push", sample |-> rb_next, kept |-> r.ok, before |-> rb]
    /\ rb_next' = rb_next + 1
    /\ UNCHANGED rb_popped
    /\ UNCHANGED notRingVars

\* The DSP loop's drain: while let Some(sample) = consumer.try_pop(); None
\* ends the drain
DspPop ==
    /\ IF rb = <<>>
       THEN /\ rb_obs' = [ev |-> "pop", sample |-> 0, kept |-> FALSE, before |-> rb]
            /\ UNCHANGED <<rb, rb_popped>>
       ELSE /\ rb' = Tail(rb)
            /\ rb_popped' = Append(rb_popped, Head(rb))
            /\ rb_obs' = [ev |-> "pop", sample |-> Head(rb), kept |-> TRUE, before |-> rb]
    /\ UNCHANGED rb_next
    /\ UNCHANGED notRingVars

(***************************************************************************)
(* modem/varicode.rs: the varicode table and the streaming decoder         *)
(***************************************************************************)

\* The match arms of Varicode::encode, 0x00 first: VARICODE[b + 1] is the
\* code of the byte b
VARICODE ==
    << <<"1", "0", "1", "0", "1", "0", "1", "0", "1", "1">>,
       <<"1", "0", "1", "1", "0", "1", "1", "0", "1", "1">>,
       <<"1", "0", "1", "1", "1", "0", "1", "1", "0", "1">>,
       <<"1", "1", "0", "1", "1", "1", "0", "1", "1", "1">>,
       <<"1", "0", "1", "1", "1", "0", "1", "0", "1", "1">>,
       <<"1", "1", "0", "1", "0", "1", "1", "1", "1", "1">>,
       <<"1", "0", "1", "1", "1", "0", "1", "1", "1", "1">>,
       <<"1", "0", "1", "1", "1", "1", "1", "1", "0", "1">>,
       <<"1", "0", "1", "1", "1", "1", "1", "1", "1", "1">>,
       <<"1", "1", "1", "0", "1", "1", "1", "1">>,
       <<"1", "1", "1", "0", "1">>,
       <<"1", "1", "0", "1", "1", "0", "1", "1", "1", "1">>,
       <<"1", "0", "1", "1", "0", "1", "1", "1", "0", "1">>,
       <<"1", "1", "1", "1", "1">>,
       <<"1", "1", "0", "1", "1", "1", "0", "1", "0", "1">>,
       <<"1", "1", "1", "0", "1", "0", "1", "0", "1", "1">>,
       <<"1", "0", "1", "1", "1", "1", "0", "1", "1", "1">>,
       <<"1", "0", "1", "1", "1", "1", "0", "1", "0", "1">>,
       <<"1", "1", "1", "0", "1", "0", "1", "1", "0", "1">>,
       <<"1", "1", "1", "0", "1", "0", "1", "1", "1", "1">>,
       <<"1", "1", "0", "1", "0", "1", "1", "0", "1", "1">>,
       <<"1", "1", "0", "1", "1", "0", "1", "0", "1", "1">>,
       <<"1", "1", "0", "1", "1", "0", "1", "1", "0", "1">>,
       <<"1", "1", "0", "1", "0", "1", "0", "1", "1", "1">>,
       <<"1", "1", "0", "1", "1", "1", "1", "0", "1", "1">>,
       <<"1", "1", "0", "1", "1", "1", "1", "1", "0", "1">>,
       <<"1", "1", "1", "0", "1", "1", "0", "1", "1", "1">>,
       <<"1", "1", "0", "1", "0", "1", "0", "1", "0", "1">>,
       <<"1", "1", "0", "1", "0", "1", "1", "1", "0", "1">>,
       <<"1", "1", "1", "0", "1", "1", "1", "0", "1", "1">>,
       <<"1", "0", "1", "1", "1", "1", "1", "0", "1", "1">>,
       <<"1", "1", "0", "1", "1", "1", "1", "1", "1", "1">>,
       <<"1">>,
       <<"1", "1", "1", "1", "1", "1", "1", "1", "1">>,
       <<"1", "0", "1", "0", "1", "1", "1", "1", "1">>,
       <<"1", "1", "1", "1", "1", "0", "1", "0", "1">>,
       <<"1", "1", "1", "0", "1", "1", "0", "1", "1">>,
       <<"1", "0", "1", "1", "0", "1", "0", "1", "0", "1">>,
       <<"1", "0", "1", "0", "1", "1", "1", "0", "1", "1">>,
       <<"1", "0", "1", "1", "1", "1", "1", "1", "1">>,
       <<"1", "1", "1", "1", "1", "0", "1", "1">>,
       <<"1", "1", "1", "1", "0", "1", "1", "1">>,
       <<"1", "0", "1", "1", "0", "1", "1", "1", "1">>,
       <<"1", "1", "1", "0", "1", "1", "1", "1", "1">>,
       <<"1", "1", "1", "0", "1", "0", "1">>,
       <<"1", "1", "0", "1", "0", "1">>,
       <<"1", "0", "1", "0", "1", "1", "1">>,
       <<"1", "1", "0", "1", "0", "1", "1", "1", "1">>,
       <<"1", "0", "1", "1", "0", "1", "1", "1">>,
       <<"1", "0", "1", "1", "1", "1", "0", "1">>,
       <<"1", "1", "1", "0", "1", "1", "0", "1">>,
       <<"1", "1", "1", "1", "1", "1", "1", "1">>,
       <<"1", "0", "1", "1", "1", "0", "1", "1", "1">>,
       <<"1", "0", "1", "0", "1", "1", "0", "1", "1">>,
       <<"1", "0", "1", "1", "0", "1", "0", "1", "1">>,
       <<"1", "1", "0", "1", "0", "1", "1", "0", "1">>,
       <<"1", "1", "0", "1", "0", "1", "0", "1", "1">>,
       <<"1", "1", "0", "1", "1", "0", "1", "1", "1">>,
       <<"1", "1", "1", "1", "0", "1", "0", "1">>,
       <<"1", "1", "0", "1", "1", "1", "1", "0", "1">>,
       <<"1", "1", "1", "1", "0", "1", "1", "0", "1">>,
       <<"1", "0", "1", "0", "1", "0", "1">>,
       <<"1", "1", "1", "0", "1", "0", "1", "1", "1">>,
       <<"1", "0", "1", "0", "1", "0", "1", "1", "1", "1">>,
       <<"1", "0", "1", "0", "1", "1", "1", "1", "0", "1">>,
       <<"1", "1", "1", "1", "1", "0", "1">>,
       <<"1", "1", "1", "0", "1", "0", "1", "1">>,
       <<"1", "0", "1", "0", "1", "1", "0", "1">>,
       <<"1", "0", "1", "1", "0", "1", "0", "1">>,
       <<"1", "1", "1", "0", "1", "1", "1">>,
       <<"1", "1", "0", "1", "1", "0", "1", "1">>,
       <<"1", "1", "1", "1", "1", "1", "0", "1">>,
       <<"1", "0", "1", "0", "1", "0", "1", "0", "1">>,
       <<"1", "1", "1", "1", "1", "1", "1">>,
       <<"1", "1", "1", "1", "1", "1", "1", "0", "1">>,
       <<"1", "0", "1", "1", "1", "1", "1", "0", "1">>,
       <<"1", "1", "0", "1", "0", "1", "1", "1">>,
       <<"1", "0", "1", "1", "1", "0", "1", "1">>,
       <<"1", "1", "0", "1", "1", "1", "0", "1">>,
       <<"1", "0", "1", "0", "1", "0", "1", "1">>,
       <<"1", "1", "0", "1", "0", "1", "0", "1">>,
       <<"1", "1", "1", "0", "1", "1", "1", "0", "1">>,
       <<"1", "0", "1", "0", "1", "1", "1", "1">>,
       <<"1", "1", "0", "1", "1", "1", "1">>,
       <<"1", "1", "0", "1", "1", "0", "1">>,
       <<"1", "0", "1", "0", "1", "0", "1", "1", "1">>,
       <<"1", "1", "0", "1", "1", "0", "1", "0", "1">>,
       <<"1", "0", "1", "0", "1", "1", "1", "0", "1">>,
       <<"1", "0", "1", "1", "1", "0", "1", "0", "1">>,
       <<"1", "0", "1", "1", "1", "1", "0", "1", "1">>,
       <<"1", "0", "1", "0", "1", "0", "1", "1", "0", "1">>,
       <<"1", "1", "1", "1", "1", "0", "1", "1", "1">>,
       <<"1", "1", "1", "1", "0", "1", "1", "1", "1">>,
       <<"1", "1", "1", "1", "1", "1", "0", "1", "1">>,
       <<"1", "0", "1", "0", "1", "1", "1", "1", "1", "1">>,
       <<"1", "0", "1", "1", "0", "1", "1", "0", "1">>,
       <<"1", "0", "1", "1", "0", "1", "1", "1", "1", "1">>,
       <<"1", "0", "1", "1">>,
       <<"1", "0", "1", "1", "1", "1", "1">>,
       <<"1", "0", "1", "1", "1", "1">>,
       <<"1", "0", "1", "1", "0", "1">>,
       <<"1", "1">>,
       <<"1", "1", "1", "1", "0", "1">>,
       <<"1", "0", "1", "1", "0", "1", "1">>,
       <<"1", "0", "1", "0", "1", "1">>,
       <<"1", "1", "0", "1">>,
       <<"1", "1", "1", "1", "0", "1", "0", "1", "1">>,
       <<"1", "0", "1", "1", "1", "1", "1", "1">>,
       <<"1", "1", "0", "1", "1">>,
       <<"1", "1", "1", "0", "1", "1">>,
       <<"1", "1", "1", "1">>,
       <<"1", "1", "1">>,
       <<"1", "1", "1", "1", "1", "1">>,
       <<"1", "1", "0", "1", "1", "1", "1", "1", "1">>,
       <<"1", "0", "1", "0", "1">>,
       <<"1", "0", "1", "1", "1">>,
       <<"1", "0", "1">>,
       <<"1", "1", "0", "1", "1", "1">>,
       <<"1", "1", "1", "1", "0", "1", "1">>,
       <<"1", "1", "0", "1", "0", "1", "1">>,
       <<"1", "1", "0", "1", "1", "1", "1", "1">>,
       <<"1", "0", "1", "1", "1", "0", "1">>,
       <<"1", "1", "1", "0", "1", "0", "1", "0", "1">>,
       <<"1", "0", "1", "0", "1", "1", "0", "1", "1", "1">>,
       <<"1", "1", "0", "1", "1", "1", "0", "1", "1">>,
       <<"1", "0", "1", "0", "1", "1", "0", "1", "0", "1">>,
       <<"1", "0", "1", "1", "0", "1", "0", "1", "1", "1">>,
       <<"1", "1", "1", "0", "1", "1", "0", "1", "0", "1">> >>

\* None
Unsupported == <<>>

\* A faulty variant of Varicode_encode: 'e' is given the code of the space
Varicode_encode_Dup(ch) ==
    IF ch % 256 = 101 THEN <<"1">>
    ELSE IF ch % 256 <= 127 THEN VARICODE[(ch % 256) + 1] ELSE Unsupported

\* Varicode::encode(ch), ch a Unicode scalar value: the match is on ch as u8,
\* the low eight bits of the codepoint
Varicode_encode(ch) ==
    LET b == ch % 256
    IN  IF b <= 127 THEN VARICODE[b + 1] ELSE Unsupported

\* Varicode::bits_from_str
bits_from_str(s) == [i \in 1..Len(s) |-> s[i] = "1"]

\* VaricodeDecoder::new
VaricodeDecoder_new == [bit_buffer |-> 0, bit_count |-> 0, consecutive_zeros |-> 0]

\* No character (None)
NoChar == -1

\* bit_buffer <<= 1, k times, in a u16
RECURSIVE ShiftLeft(_, _)
ShiftLeft(b, k) == IF k = 0 THEN b ELSE ShiftLeft((2 * b) % 65536, k - 1)

\* The fold of lookup_code: the code string as a u16
RECURSIVE CodeBits(_, _)
CodeBits(s, acc) ==
    IF s = <<>> THEN acc
    ELSE CodeBits(Tail(s), ((2 * acc) % 65536) + (IF Head(s) = "1" THEN 1 ELSE 0))

\* VaricodeDecoder::lookup_code: the first ch of 0..=127 whose code has the
\* register's length and bits
lookup_code(d) ==
    LET Hit(ch) == /\ Varicode_encode(ch) # Unsupported
                   /\ Len(Varicode_encode(ch)) = d.bit_count
                   /\ CodeBits(Varicode_encode(ch), 0) = d.bit_buffer
    IN  IF \E ch \in 0..127 : Hit(ch)
        THEN CHOOSE ch \in 0..127 : Hit(ch) /\ \A c \in 0..(ch - 1) : ~Hit(c)
        ELSE NoChar

\* A faulty variant of push_bit: pending zeros are dropped when a 1 arrives
push_bit_DropZeros(d, bit) ==
    IF bit
    THEN [d |-> [bit_buffer |-> ((2 * d.bit_buffer) % 65536) + 1,
                 bit_count |-> d.bit_count + 1,
                 consecutive_zeros |-> 0],
          ch |-> NoChar]
    ELSE IF d.consecutive_zeros + 1 >= 2 /\ d.bit_count > 0
         THEN [d |-> VaricodeDecoder_new, ch |-> lookup_code(d)]
         ELSE [d |-> [d EXCEPT !.consecutive_zeros = @ + 1], ch |-> NoChar]

\* VaricodeDecoder::push_bit: the decoder afterwards and the character
\* returned. (bit_count and consecutive_zeros are u8; every run here keeps
\* them below 256.)
push_bit(d, bit) ==
    IF bit
    THEN [d |-> [bit_buffer |-> ((2 * ShiftLeft(d.bit_buffer, d.consecutive_zeros)) % 65536) + 1,
                 bit_count |-> d.bit_count + d.consecutive_zeros + 1,
                 consecutive_zeros |-> 0],
          ch |-> NoChar]
    ELSE IF d.consecutive_zeros + 1 >= 2 /\ d.bit_count > 0
         THEN [d |-> VaricodeDecoder_new, ch |-> lookup_code(d)]
         ELSE [d |-> [d EXCEPT !.consecutive_zeros = @ + 1], ch |-> NoChar]

\* Longest sequence of characters fed or encoded
MaxText == 3

\* Longest run of 0 bits pushed first, besides a whole preamble
MaxIdle == 3

\* Number of idle (phase-change) bits before data
PREAMBLE_BITS == 32

\* Number of idle bits after data
POSTAMBLE_BITS == 32

\* At 48 kHz and 31.25 baud
SAMPLES_PER_SYMBOL == 1536

IdleRuns == 0..MaxIdle \cup {PREAMBLE_BITS}

\* NUL (ten bits), space (one bit), H, I, e
TextChars == {0, 32, 72, 73, 101}

SeqsUpTo(S, n) == UNION {[1..k -> S] : k \in 0..n}

\* Every codepoint on its own, and the short sequences over TextChars
FedTexts == {<<c>> : c \in 0..127} \cup SeqsUpTo(TextChars, MaxText)

\* The bits of test_decode_roundtrip: each character's code, then 00
RECURSIVE Stream(_)
Stream(text) ==
    IF text = <<>> THEN <<>>
    ELSE bits_from_str(Varicode_encode(Head(text))) \o <<FALSE, FALSE>> \o Stream(Tail(text))

\* All the bits the decoder is given
Feed == [i \in 1..v_idle |-> FALSE] \o Stream(v_text)

\* One push_bit call, on the next bit of the feed
VaricodePush ==
    /\ v_fed < Len(Feed)
    /\ LET r == push_bit(vd, Feed[v_fed + 1])
       IN  /\ vd' = r.d
           /\ v_out' = IF r.ch # NoChar THEN Append(v_out, [ch |-> r.ch, at |-> v_fed + 1])
                       ELSE v_out
    /\ v_fed' = v_fed + 1
    /\ UNCHANGED <<v_idle, v_text, enc>>
    /\ UNCHANGED notModemVars

(***************************************************************************)
(* modem/encoder.rs: Psk31Encoder::encode                                  *)
(***************************************************************************)

\* H, I, e; an e with acute accent (U+00E9), L with stroke (U+0141), the
\* euro sign (U+20AC)
EncChars == {72, 73, 101, 233, 321, 8364}

EncTexts == SeqsUpTo(EncChars, MaxText)

FalseBits(n) == [i \in 1..n |-> FALSE]

\* A faulty variant of CharBits: one separator bit
CharBits_OneZero(ch) ==
    IF Varicode_encode(ch) # Unsupported
    THEN bits_from_str(Varicode_encode(ch)) \o <<FALSE>>
    ELSE <<>>

\* The body of text_to_bits's loop: what one character adds to the bits
CharBits(ch) ==
    IF Varicode_encode(ch) # Unsupported
    THEN bits_from_str(Varicode_encode(ch)) \o <<FALSE, FALSE>>
    ELSE <<>>

RECURSIVE TextBits(_)
TextBits(text) == IF text = <<>> THEN <<>> ELSE CharBits(Head(text)) \o TextBits(Tail(text))

\* Psk31Encoder::text_to_bits
text_to_bits(text) == FalseBits(PREAMBLE_BITS) \o TextBits(text) \o FalseBits(POSTAMBLE_BITS)

\* RaisedCosineShaper::generate_envelope(phase_change)[i], i in 0..n-1, as a
\* level: all ones without a phase change; |cos(pi * i / n)| with one, which
\* is 1.0 at i = 0 and (up to rounding) 0 at the midpoint
generate_envelope(phase_change, i) ==
    IF ~phase_change THEN "full"
    ELSE IF i = 0 THEN "full"
    ELSE IF 2 * i = SAMPLES_PER_SYMBOL THEN "zero"
    ELSE "partial"

\* Psk31Encoder::bits_to_samples: for each bit, whether the phase flips at
\* its symbol, the samples of the symbol before which nco.adjust_phase(PI)
\* is called (numbered from 0), and SAMPLES_PER_SYMBOL samples; the sample
\* values are left out
bits_to_samples(bits) ==
    [phase_change |-> [i \in 1..Len(bits) |-> ~bits[i]],
     flips |-> [i \in 1..Len(bits) |-> IF ~bits[i] THEN <<0>> ELSE <<>>],
     samples |-> Len(bits) * SAMPLES_PER_SYMBOL]

NoEnc == [text |-> <<>>, on |-> FALSE, done |-> FALSE, per |-> <<>>, bits |-> <<>>,
          phase_change |-> <<>>, flips |-> <<>>, samples |-> 0]

\* Psk31Encoder::encode(text); per (ghost) is what each character added
Psk31Encoder_encode ==
    /\ enc.on /\ ~enc.done
    /\ LET bits == text_to_bits(enc.text)
           out == bits_to_samples(bits)
       IN  enc' = [enc EXCEPT !.done = TRUE,
                              !.per = [i \in 1..Len(enc.text) |-> CharBits(enc.text[i])],
                              !.bits = bits,
                              !.phase_change = out.phase_change,
                              !.flips = out.flips,
                              !.samples = out.samples]
    /\ UNCHANGED <<vd, v_idle, v_text, v_fed, v_out>>
    /\ UNCHANGED notModemVars

ModemIdle ==
    /\ vd = VaricodeDecoder_new
    /\ v_idle = 0 /\ v_text = <<>> /\ v_fed = 0 /\ v_out = <<>>
    /\ enc = NoEnc

\* Either a decoder with its feed, or an encode call with its text
ModemInit ==
    /\ vd = VaricodeDecoder_new /\ v_fed = 0 /\ v_out = <<>>
    /\ \/ v_idle \in IdleRuns /\ v_text \in FedTexts /\ enc = NoEnc
       \/ v_idle = 0 /\ v_text = <<>> /\ enc \in {[NoEnc EXCEPT !.text = t, !.on = TRUE] : t \in EncTexts}

(***************************************************************************)
(* Single calls of cat::encode and cat::decode                             *)
(***************************************************************************)

\* The names of the mode table, and names it does not hold
ModeNames ==
    {CAT_MODE_TABLE[i][2] : i \in 1..Len(CAT_MODE_TABLE)}
        \cup {"", "GIBBERISH", "usb", "PSK31", "DATA-USB ", "DATA"}

\* The characters tried in the code position of a mode report, each as its
\* bytes
CodeChars ==
    {<<c>> : c \in {"0", "1", "2", "3", "4", "5", "6", "7", "8", "9", "A", "B", "C", "D", "E",
                    "F", "G", "a", "c", "e", "Z", " ", ";", "?", "\n", "+", "-", "M"}}
        \cup {EAcute}

\* "MD0" + c + ";"
ModeReport(c) == <<"M", "D", "0">> \o c \o <<";">>

ModeReports == {ModeReport(c) : c \in CodeChars}

\* Frequency reports: well formed, and malformed in each way
FreqReports ==
    { <<"F", "A", "0", "0", "0", "1", "4", "0", "7", "0", "0", "0", "0", ";">>,
      <<"F", "A", "0", "0", "0", "0", "7", "0", "7", "4", "0", "0", "0", ";">>,
      <<"F", "A", "0", "0", "0", "0", "0", "0", "0", "0", "0", "0", "0", ";">>,
      <<"F", "B", "0", "0", "0", "1", "4", "0", "7", "0", "0", "0", "0", ";">>,
      <<"F", "A", "1", "2", "3", ";">>,
      <<"F", "A", "0", "0", "0", "1", "4", "0", "7", "0", "0", "0", ";">>,
      <<"F", "A", "0", "0", "0", "1", "4", "0", "7", "0", "0", "0", "0", "1", ";">>,
      <<"F", "A", "0", "0", "0", "1", "4", "0", "7", "0", "0", "0", "0">>,
      <<"F", "A", "0", "0", "0", "1", "4", "0", "7", "0", "0", "0", "X", ";">>,
      <<"F", "A", "+", "0", "0", "1", "4", "0", "7", "0", "0", "0", "0", ";">>,
      <<"F", "A", "-", "0", "0", "1", "4", "0", "7", "0", "0", "0", "0", ";">>,
      <<" ", "F", "A", "0", "0", "0", "1", "4", "0", "7", "0", "0", "0", "0", ";">>,
      <<"F", "A", "0", "0", "0", "1", "4", "0", "7", "0", "0", "0", "0", ";", "\r", "\n">>,
      <<"F", "A", "0", "0", "0", "1", "4", "0", "7", "0", "0", "0", "0", ";", ";">>,
      <<>>,
      <<";">>,
      <<"?">>,
      <<"?", ";">>,
      <<"f", "a", "0", "0", "0", "1", "4", "0", "7", "0", "0", "0", "0", ";">>,
      <<"F", "A", "0", "0", "0", "1", "4", "0", "7", "0", "0", "0", "0", ";", "F", "A", "0", "0", "0", "0", "7", "0", "7", "4", "0", "0", "0", ";">>,
      <<"M", "D", "0", "C", ";">>,
      <<"F", "A", " ", "0", "0", "1", "4", "0", "7", "0", "0", "0", "0", ";">>,
      <<"A", "F", "0", "0", "0", "1", "4", "0", "7", "0", "0", "0", "0", ";">>,
      <<"F", "A", "0", "0", "0", "1", "4", "0", "7", "0", "0", "0", "0", ":">>,
      <<"F", "A", "0", "0", "0", "1", "4", "0", "7", "0", "0", "0">> \o EAcute \o <<";">> }

NoCx == [pc |-> "", cmd |-> Cmd(""), name |-> "", resp |-> <<>>, wire |-> <<>>, out |-> Ack]

\* encode(SetMode(name)); the wire string is then handed to decode as the
\* report of GetMode (encode_all_modes_roundtrip, decode_all_modes_roundtrip)
EncodeCall ==
    /\ cx.pc = "encode"
    /\ cx' = [cx EXCEPT !.pc = "decode", !.wire = encode(cx.cmd),
                        !.cmd = Cmd("GetMode"), !.resp = encode(cx.cmd)]
    /\ UNCHANGED notCodecVars

\* decode(resp, cmd)
DecodeCall ==
    /\ cx.pc = "decode"
    /\ cx' = [cx EXCEPT !.pc = "done", !.out = decode(cx.resp, cx.cmd)]
    /\ UNCHANGED notCodecVars

CodecIdle == cx = NoCx

CodecInit ==
    cx \in {[NoCx EXCEPT !.pc = "encode", !.cmd = SetMode(n), !.name = n] : n \in ModeNames}
           \cup {[NoCx EXCEPT !.pc = "decode", !.cmd = Cmd("GetMode"), !.resp = r] : r \in ModeReports}
           \cup {[NoCx EXCEPT !.pc = "decode", !.cmd = Cmd("GetFrequencyA"), !.resp = r] :
                    r \in FreqReports}

(***************************************************************************)
(* modem/decoder.rs: Psk31Decoder                                          *)
(*                                                                         *)
(* Floating-point state is kept as a token: "0" for the value the          *)
(* constructor gives the field, "run" for whatever processing left there.  *)
(* The AGC gain is a number of adjustment steps away from 1.0.             *)
(***************************************************************************)

\* Number of bits without a character before the bit sense is inverted
PHASE_AMBIGUITY_THRESHOLD == 100

\* Largest number of gain steps away from 1.0 that is followed
MaxGain == 1

\* Audio carriers the decoder is tuned to
CarrierFreqs == {1000, 1500}

\* Agc::new
Agc_new == [gain |-> 0]

\* CostasLoop::new(carrier_freq, ..): the NCO at carrier_freq with phase 0,
\* both arm filters and the integrator at 0
CostasLoop_new(f) ==
    [frequency |-> f, phase |-> "0", filtered_i |-> "0", filtered_q |-> "0", integrator |-> "0"]

\* ClockRecovery::new
ClockRecovery_new == [omega |-> "0", last_symbol |-> "0", sample_count |-> "0"]

\* The symbol value 0.0: not positive, below the squelch
ZeroSymbol == [pos |-> FALSE, weak |-> TRUE]

\* Psk31Decoder::new(carrier_freq, ..)
Psk31Decoder_new(f) ==
    [agc |-> Agc_new,
     costas_loop |-> CostasLoop_new(f),
     clock_recovery |-> ClockRecovery_new,
     varicode_decoder |-> VaricodeDecoder_new,
     last_symbol |-> ZeroSymbol,
     bits_without_char |-> 0,
     invert_bits |-> FALSE,
     carrier_freq |-> f]

\* A faulty variant of set_carrier_freq: the AGC is reset as well
set_carrier_freq_ResetsAgc(d, freq) == Psk31Decoder_new(freq)

\* Psk31Decoder::set_carrier_freq
set_carrier_freq(d, freq) ==
    [d EXCEPT !.carrier_freq = freq,
              !.costas_loop = [frequency |-> freq, phase |-> "0", filtered_i |-> "0",
                               filtered_q |-> "0", integrator |-> "0"],
              !.clock_recovery = ClockRecovery_new,
              !.varicode_decoder = VaricodeDecoder_new,
              !.last_symbol = ZeroSymbol,
              !.bits_without_char = 0,
              !.invert_bits = FALSE]

\* Agc::process: the gain falls when the output is above the target level
\* and rises otherwise
Agc_process(a, loud) ==
    [gain |-> IF loud THEN (IF a.gain > -MaxGain THEN a.gain - 1 ELSE a.gain)
              ELSE (IF a.gain < MaxGain THEN a.gain + 1 ELSE a.gain)]

\* CostasLoop::process
CostasLoop_process(c) ==
    [c EXCEPT !.phase = "run", !.filtered_i = "run", !.filtered_q = "run", !.integrator = "run"]

\* ClockRecovery::process: decision tells whether a symbol is returned
ClockRecovery_process(c, decision) ==
    IF decision THEN [omega |-> "run", last_symbol |-> "run", sample_count |-> "run"]
    ELSE [c EXCEPT !.sample_count = "run"]

\* The bit patterns a received signal repeats: a steady carrier, an idle
\* signal (a reversal at every symbol), and the letter e over and over
Signals == {<<TRUE>>, <<FALSE>>, Stream(<<101>>)}

NoSignal == [bits |-> <<>>, ix |-> 1]

NoRxObs == [ev |-> "", f |-> 0, ch |-> NoChar, pushed |-> FALSE, before |-> Psk31Decoder_new(0)]

\* A faulty variant of PastThreshold: the fallback comes one bit early
PastThreshold_Early(count) == count >= PHASE_AMBIGUITY_THRESHOLD

\* Step 7 of Psk31Decoder::process: bits_without_char > PHASE_AMBIGUITY_THRESHOLD
PastThreshold(count) == count > PHASE_AMBIGUITY_THRESHOLD

\* Steps 4 to 7 of Psk31Decoder::process, for the symbol the clock recovery
\* returned: the decoder afterwards and the character returned
AfterSymbol(d, symbol) ==
    IF symbol.weak /\ d.last_symbol.weak
    THEN [d |-> [d EXCEPT !.last_symbol = symbol], ch |-> NoChar, pushed |-> FALSE]
    ELSE LET raw_bit == (symbol.pos = d.last_symbol.pos)
             bit == IF d.invert_bits THEN ~raw_bit ELSE raw_bit
             r == push_bit(d.varicode_decoder, bit)
             count == d.bits_without_char + 1
         IN  IF r.ch # NoChar
             THEN [d |-> [d EXCEPT !.last_symbol = symbol, !.varicode_decoder = r.d,
                                   !.bits_without_char = 0],
                   ch |-> r.ch, pushed |-> TRUE]
             ELSE IF PastThreshold(count)
             THEN [d |-> [d EXCEPT !.last_symbol = symbol,
                                   !.varicode_decoder = VaricodeDecoder_new,
                                   !.bits_without_char = 0,
                                   !.invert_bits = ~d.invert_bits],
                   ch |-> NoChar, pushed |-> TRUE]
             ELSE [d |-> [d EXCEPT !.last_symbol = symbol, !.varicode_decoder = r.d,
                                   !.bits_without_char = count],
                   ch |-> NoChar, pushed |-> TRUE]

\* Psk31Decoder::process(sample). loud: the AGC output is above the target;
\* decision: the sample is a symbol decision point; weak: the symbol is below
\* the squelch, which happens only until the loop has locked (a symbol above
\* the squelch is followed by symbols above it). At a decision point the
\* symbol's sign carries the next bit of the signal: the sign of the symbol
\* before it for a 1, the other for a 0.
DecoderProcess ==
    /\ d_signal.bits # <<>>
    /\ \E loud \in BOOLEAN, decision \in BOOLEAN,
          weak \in (IF dec.last_symbol.weak THEN BOOLEAN ELSE {FALSE}) :
         LET d1 == [dec EXCEPT !.agc = Agc_process(dec.agc, loud),
                               !.costas_loop = CostasLoop_process(dec.costas_loop),
                               !.clock_recovery = ClockRecovery_process(dec.clock_recovery, decision)]
             b == d_signal.bits[d_signal.ix]
             symbol == [pos |-> IF b THEN dec.last_symbol.pos ELSE ~dec.last_symbol.pos,
                        weak |-> weak]
             r == AfterSymbol(d1, symbol)
         IN  IF decision
             THEN /\ dec' = r.d
                  /\ d_signal' = [d_signal EXCEPT !.ix = (d_signal.ix % Len(d_signal.bits)) + 1]
                  /\ d_obs' = [NoRxObs EXCEPT !.ev = "process", !.ch = r.ch,
                                               !.pushed = r.pushed, !.before = dec]
             ELSE /\ dec' = d1
                  /\ d_signal' = d_signal
                  /\ d_obs' = [NoRxObs EXCEPT !.ev = "process", !.before = dec]
    /\ UNCHANGED notRxVars

\* A call of set_carrier_freq (click-to-tune)
SetCarrierFreq ==
    /\ d_signal.bits # <<>>
    /\ \E f \in CarrierFreqs :
         /\ dec' = set_carrier_freq(dec, f)
         /\ d_obs' = [NoRxObs EXCEPT !.ev = "retune", !.f = f, !.before = dec]
    /\ UNCHANGED d_signal
    /\ UNCHANGED notRxVars

RxIdle == dec = Psk31Decoder_new(0) /\ d_signal = NoSignal /\ d_obs = NoRxObs

RxInit ==
    /\ \E f \in CarrierFreqs : dec = Psk31Decoder_new(f)
    /\ \E s \in Signals : d_signal = [bits |-> s, ix |-> 1]
    /\ d_obs = NoRxObs

(***************************************************************************)
(* The mutexes of AppState as the commands and the spawned threads take    *)
(* them: commands/radio.rs, serial.rs, status.rs, tx.rs, and the locks of  *)
(* run_audio_thread. What a call does under a lock is left out; which      *)
(* branch it takes is a choice.                                            *)
(***************************************************************************)

Mutexes == {"radio", "serial_port_name", "tx_thread", "audio_device_name", "rx_carrier_freq"}

Free == "free"

\* The TX threads of a run; the name of one that returned is used again
TxWorkers == {"tx_a", "tx_b"}

NoWorker == "none"

LcIdle == [cmd |-> "", pc |-> "idle", h |-> NoWorker]

LockIdle ==
    /\ held = [m \in Mutexes |-> Free]
    /\ lc = [t \in Threads |-> LcIdle]
    /\ l_tx_thread = NoWorker
    /\ l_tx_abort = FALSE
    /\ l_workers = [k \in TxWorkers |-> "none"]
    /\ l_dsp = "none"

\* As LockIdle, with an audio thread in its DSP loop
LockInit ==
    /\ held = [m \in Mutexes |-> Free]
    /\ lc = [t \in Threads |-> LcIdle]
    /\ l_tx_thread = NoWorker
    /\ l_tx_abort = FALSE
    /\ l_workers = [k \in TxWorkers |-> "none"]
    /\ l_dsp = "loop"

\* Thread t is at pc of command cmd
At(t, cmd, pc) == lc[t].cmd = cmd /\ lc[t].pc = pc

Goto(t, pc) == lc' = [lc EXCEPT ![t].pc = pc]

Return(t) == lc' = [lc EXCEPT ![t] = LcIdle]

\* m.lock() returns the guard to t, which keeps it
Acquire(t, m) == held[m] = Free /\ held' = [held EXCEPT ![m] = t]

\* The guard of m goes out of scope
Release(m) == held' = [held EXCEPT ![m] = Free]

\* m.lock() in a statement that drops the guard at its end
LockedOnce(m) == held[m] = Free /\ UNCHANGED held

\* No handle, no command and no running thread goes by the name k
Unused(k) ==
    /\ l_workers[k] \in {"none", "exited"}
    /\ l_tx_thread # k
    /\ \A t \in Threads : lc[t].h # k

\* The commands a command thread may be asked to run
LockCommands ==
    {"with_radio", "connect_serial", "disconnect_serial", "get_connection_status", "stop_tx"}

\* A command is invoked on thread t (start_tx with the name its thread will have)
Invoke(t) ==
    /\ lc[t].pc = "idle"
    /\ \/ \E c \in LockCommands : lc' = [lc EXCEPT ![t] = [cmd |-> c, pc |-> "begin", h |-> NoWorker]]
       \/ \E k \in TxWorkers :
            /\ Unused(k)
            /\ lc' = [lc EXCEPT ![t] = [cmd |-> "start_tx", pc |-> "begin", h |-> k]]
    /\ UNCHANGED <<held, l_tx_thread, l_tx_abort, l_workers, l_dsp>>

\* with_radio: state.radio.lock(); f(radio) under the guard; on a Serial
\* error drop(guard) and then serial_port_name.lock().take()
LWithRadio(t) ==
    /\ \/ /\ At(t, "with_radio", "begin")
          /\ Acquire(t, "radio") /\ Goto(t, "call")
       \/ /\ At(t, "with_radio", "call")
          /\ Release("radio")
          /\ Return(t) \/ Goto(t, "port")
       \/ /\ At(t, "with_radio", "port")
          /\ LockedOnce("serial_port_name") /\ Return(t)
    /\ UNCHANGED <<l_tx_thread, l_tx_abort, l_workers, l_dsp>>

\* A faulty variant of NestedOrder: the port name is locked first
NestedOrder_PortNameFirst(cmd) ==
    IF cmd = "disconnect_serial" THEN <<"serial_port_name", "radio">>
    ELSE <<"radio", "serial_port_name">>

\* connect_serial and disconnect_serial: radio_slot is locked, and the port
\* name is locked while radio_slot is alive
NestedOrder(cmd) == <<"radio", "serial_port_name">>

\* connect_serial: open and probes (`?` on each), then the two stores
LConnect(t) ==
    /\ \/ /\ At(t, "connect_serial", "begin")
          /\ UNCHANGED held
          /\ Return(t) \/ Goto(t, "lock")
       \/ /\ At(t, "connect_serial", "lock")
          /\ Acquire(t, NestedOrder("connect_serial")[1]) /\ Goto(t, "port")
       \/ /\ At(t, "connect_serial", "port")
          /\ held[NestedOrder("connect_serial")[2]] = Free
          /\ Release(NestedOrder("connect_serial")[1]) /\ Return(t)
    /\ UNCHANGED <<l_tx_thread, l_tx_abort, l_workers, l_dsp>>

\* disconnect_serial
LDisconnect(t) ==
    /\ \/ /\ At(t, "disconnect_serial", "begin")
          /\ Acquire(t, NestedOrder("disconnect_serial")[1]) /\ Goto(t, "port")
       \/ /\ At(t, "disconnect_serial", "port")
          /\ held[NestedOrder("disconnect_serial")[2]] = Free
          /\ Release(NestedOrder("disconnect_serial")[1]) /\ Return(t)
    /\ UNCHANGED <<l_tx_thread, l_tx_abort, l_workers, l_dsp>>

\* get_connection_status: three locks, each dropped at the end of its statement
LStatus(t) ==
    /\ \/ At(t, "get_connection_status", "begin") /\ LockedOnce("radio") /\ Goto(t, "port")
       \/ At(t, "get_connection_status", "port") /\ LockedOnce("serial_port_name") /\ Goto(t, "device")
       \/ At(t, "get_connection_status", "device") /\ LockedOnce("audio_device_name") /\ Return(t)
    /\ UNCHANGED <<l_tx_thread, l_tx_abort, l_workers, l_dsp>>

\* start_tx: the is_some() test, the abort flag, ptt_on under the radio
\* guard, thread::spawn, the replace of the handle
LStartTx(t) ==
    \/ /\ At(t, "start_tx", "begin")
       /\ LockedOnce("tx_thread")
       /\ IF l_tx_thread # NoWorker THEN Return(t) ELSE Return(t) \/ Goto(t, "abort")
       /\ UNCHANGED <<l_tx_thread, l_tx_abort, l_workers, l_dsp>>
    \/ /\ At(t, "start_tx", "abort")
       /\ l_tx_abort' = FALSE
       /\ Goto(t, "ptt")
       /\ UNCHANGED <<held, l_tx_thread, l_workers, l_dsp>>
    \/ /\ At(t, "start_tx", "ptt")
       /\ Acquire(t, "radio") /\ Goto(t, "spawn")
       /\ UNCHANGED <<l_tx_thread, l_tx_abort, l_workers, l_dsp>>
    \/ /\ At(t, "start_tx", "spawn")
       /\ Release("radio")
       /\ l_workers' = [l_workers EXCEPT ![lc[t].h] = "run"]
       /\ Goto(t, "store")
       /\ UNCHANGED <<l_tx_thread, l_tx_abort, l_dsp>>
    \/ /\ At(t, "start_tx", "store")
       /\ LockedOnce("tx_thread")
       /\ l_tx_thread' = lc[t].h
       /\ Return(t)
       /\ UNCHANGED <<l_tx_abort, l_workers, l_dsp>>

\* stop_tx: the abort flag; tx_thread.lock().take() and, the guard alive,
\* handle.join(); ptt_off under the radio guard
LStopTx(t) ==
    \/ /\ At(t, "stop_tx", "begin")
       /\ l_tx_abort' = TRUE
       /\ Goto(t, "take")
       /\ UNCHANGED <<held, l_tx_thread, l_workers, l_dsp>>
    \/ /\ At(t, "stop_tx", "take")
       /\ l_tx_thread' = NoWorker
       /\ IF l_tx_thread = NoWorker
          THEN LockedOnce("tx_thread") /\ Goto(t, "ptt")
          ELSE /\ Acquire(t, "tx_thread")
               /\ lc' = [lc EXCEPT ![t].pc = "join", ![t].h = l_tx_thread]
       /\ UNCHANGED <<l_tx_abort, l_workers, l_dsp>>
    \/ /\ At(t, "stop_tx", "join")
       /\ l_workers[lc[t].h] = "exited"
       /\ Release("tx_thread")
       /\ lc' = [lc EXCEPT ![t].pc = "ptt", ![t].h = NoWorker]
       /\ UNCHANGED <<l_tx_thread, l_tx_abort, l_workers, l_dsp>>
    \/ /\ At(t, "stop_tx", "ptt")
       /\ Acquire(t, "radio") /\ Goto(t, "ptt_call")
       /\ UNCHANGED <<l_tx_thread, l_tx_abort, l_workers, l_dsp>>
    \/ /\ At(t, "stop_tx", "ptt_call")
       /\ Release("radio") /\ Return(t)
       /\ UNCHANGED <<l_tx_thread, l_tx_abort, l_workers, l_dsp>>

\* A step of the command thread t has invoked
LcStep(t) ==
    /\ (LWithRadio(t) \/ LConnect(t) \/ LDisconnect(t) \/ LStatus(t) \/ LStartTx(t) \/ LStopTx(t))
    /\ UNCHANGED notLockVars

LcInvoke(t) == Invoke(t) /\ UNCHANGED notLockVars

\* run_tx_thread returns (abort seen, playback done, or the stream failed
\* to start); it takes no mutex
LTxReturn(k) ==
    /\ l_workers[k] = "run"
    /\ l_workers' = [l_workers EXCEPT ![k] = "exited"]
    /\ UNCHANGED <<held, lc, l_tx_thread, l_tx_abort, l_dsp>>
    /\ UNCHANGED notLockVars

\* run_audio_thread: rx_carrier_freq.lock() once per iteration; after the
\* loop audio_device_name.lock()
LDsp ==
    /\ \/ l_dsp = "loop" /\ LockedOnce("rx_carrier_freq") /\ l_dsp' \in {"loop", "shutdown"}
       \/ l_dsp = "shutdown" /\ LockedOnce("audio_device_name") /\ l_dsp' = "exited"
    /\ UNCHANGED <<lc, l_tx_thread, l_tx_abort, l_workers>>
    /\ UNCHANGED notLockVars

\* The translation calls, the modem and the decoder idle
PureIdle == CodecIdle /\ ModemIdle /\ RxIdle

(***************************************************************************)
(* Specifications                                                          *)
(***************************************************************************)

AppInit ==
    /\ radio = NoRadio
    /\ port_name = NoPort
    /\ radio_lock = NoThread
    /\ mock_mode \in BOOLEAN
    /\ th = [t \in Threads |-> Idle]
    /\ obs = NoObs
    /\ dropObs = NoObs

Step(t) ==
    \/ WithRadio(t)
    \/ ScWrite(t)
    \/ ScRead(t)
    \/ ConnectOpen(t)
    \/ ConnectStore(t)
    \/ ConnectPort(t)
    \/ DisconnectLock(t)
    \/ DisconnectPort(t)
    \/ StartTxPtt(t)
    \/ StopTxPtt(t)

\* One command at a time, over a raw serial link
Init == AppInit /\ link = "raw" /\ SessInit /\ CallIdle /\ TxIdle /\ AudIdle /\ RingIdle /\ LockIdle /\ PureIdle

Next == \E t \in {"t1"} : Step(t)

Spec == Init /\ [][Next]_vars

\* Commands from concurrent threads, over a framed serial link
InitC == AppInit /\ link = "framed" /\ SessInit /\ CallIdle /\ TxIdle /\ AudIdle /\ RingIdle /\ LockIdle /\ PureIdle

NextC == \E t \in Threads : Step(t)

SpecC == InitC /\ [][NextC]_vars

\* A CatSession driven by one caller, over a raw serial link
InitS == AppInit /\ ~mock_mode /\ link = "raw" /\ SessInit /\ CallIdle /\ TxIdle /\ AudIdle /\ RingIdle /\ LockIdle /\ PureIdle

NextS == SxCall \/ SxWrite \/ SxRead \/ Tick

SpecS == InitS /\ [][NextS]_vars

\* One adapter call on each input
InitP == AppInit /\ ~mock_mode /\ link = "raw" /\ SessInit /\ CallInit /\ TxIdle /\ AudIdle /\ RingIdle /\ LockIdle /\ PureIdle

NextP == GetFrequencyCall \/ SetTxPowerCall

SpecP == InitP /\ [][NextP]_vars

\* Transmissions: start_tx / stop_tx calls, the TX thread, the output callback
InitT ==
    /\ mock_mode \in BOOLEAN
    /\ \/ radio = NoRadio /\ port_name = NoPort
       \/ mock_mode /\ radio = MockRadio_new /\ port_name = "mock"
       \/ ~mock_mode /\ radio = Ft991aRadio_new /\ \E p \in Ports : port_name = p
    /\ radio_lock = NoThread
    /\ th = [t \in Threads |-> Idle]
    /\ obs = NoObs /\ dropObs = NoObs
    /\ link = "raw" /\ SessInit /\ CallIdle /\ TxIdle /\ AudIdle /\ RingIdle /\ LockIdle /\ PureIdle

TxCommand == StartTx \/ StartTxStore \/ StopTxAbort \/ StopTxJoin \/ StopTxPttOff

TxThread == TxThreadBegin \/ TxAudioStart \/ TxLoop \/ TxDrained

NextT == TxCommand \/ TxThread \/ TxCallback

SpecT == InitT /\ [][NextT]_vars

\* The TX thread is scheduled, and the device keeps invoking the callback
\* while the stream runs
SpecTF == SpecT /\ WF_vars(TxThread) /\ WF_vars(TxCallback)

\* Audio capture: the audio commands, the audio threads, device loss
InitA == AppInit /\ ~mock_mode /\ link = "raw" /\ SessInit /\ CallIdle /\ TxIdle /\ AudIdle /\ RingIdle /\ LockIdle /\ PureIdle

AudioCommand == StartAudio \/ StartAudioStore \/ StopAudioFlags \/ StopAudioJoin \/ StartRx \/ StopRx

DspThread(k) == DspBegin(k) \/ DspLoopTop(k) \/ DspBody(k) \/ DspShutdown(k)

NextA == AudioCommand \/ \E k \in AudioThreads : DspThread(k) \/ DeviceLost(k)

SpecA == InitA /\ [][NextA]_vars

\* Every audio thread is scheduled
SpecAF == SpecA /\ \A k \in AudioThreads : WF_vars(DspThread(k))

\* The ring buffer: the capture callback pushes, the DSP loop pops
NextR == CapturePush \/ DspPop

SpecR == InitA /\ [][NextR]_vars

\* Everything of the radio side idle
RadioQuiet ==
    AppInit /\ ~mock_mode /\ link = "raw" /\ SessInit /\ CallIdle /\ TxIdle /\ AudIdle /\ RingIdle

RadioIdle == RadioQuiet /\ LockIdle

\* One encode / decode call on each input
InitE == RadioIdle /\ CodecInit /\ ModemIdle /\ RxIdle

NextE == EncodeCall \/ DecodeCall

SpecE == InitE /\ [][NextE]_vars

\* A VaricodeDecoder on each feed, and one Psk31Encoder::encode call on each text
InitV == RadioIdle /\ CodecIdle /\ ModemInit /\ RxIdle

NextV == VaricodePush \/ Psk31Encoder_encode

SpecV == InitV /\ [][NextV]_vars

\* A Psk31Decoder processing a signal, retuned at any time
InitD == RadioIdle /\ CodecIdle /\ ModemIdle /\ RxInit

NextD == DecoderProcess \/ SetCarrierFreq

SpecD == InitD /\ [][NextD]_vars

\* Commands from concurrent threads, the TX threads they spawn and an audio
\* thread, by the mutexes they take
InitL == RadioQuiet /\ LockInit /\ PureIdle

NextL == (\E t \in Threads : LcInvoke(t) \/ LcStep(t)) \/ (\E k \in TxWorkers : LTxReturn(k)) \/ LDsp

SpecL == InitL /\ [][NextL]_vars

\* Every thread is scheduled, and a thread waiting for a mutex gets it
SpecLF ==
    /\ SpecL
    /\ \A t \in Threads : SF_vars(LcStep(t))
    /\ \A k \in TxWorkers : WF_vars(LTxReturn(k))
    /\ WF_vars(LDsp)

(***************************************************************************)
(* Properties of the radio adapter and the command layer                   *)
(***************************************************************************)

\* A radio command (through with_radio) on an Ft991aRadio returned in the last step
RadioCommandReturned == obs.ev = "ret" /\ obs.cmd \in Methods /\ obs.kind = "ft991a"

\* C1: for every frequency f outside all the amateur bands, set_frequency(f)
\* on an Ft991aRadio returns an error and makes no write call on the serial
\* connection.
C1_OutOfBandSetRejected ==
    (RadioCommandReturned /\ obs.meth = "set_frequency" /\ ~is_amateur_frequency(obs.hz))
        => (~obs.res.ok /\ obs.writes = 0)

\* C2: an Ft991aRadio dropped while is_transmitting makes at least one and at
\* most three ptt_off (TX0;) attempts, each writing its command once, and
\* stops after the first that succeeds; dropped while not transmitting it
\* makes no attempt and no write call.
C2_DropReleasesPtt ==
    (dropObs.ev = "drop" /\ dropObs.kind = "ft991a") =>
        LET log == dropObs.log
        IN  IF dropObs.wasTx
            THEN /\ Len(log) \in 1..3
                 /\ \A i \in 1..(Len(log) - 1) : ~log[i]
                 /\ Len(log) < 3 => log[Len(log)]
                 /\ dropObs.writes = Len(log)
            ELSE log = <<>> /\ dropObs.writes = 0

\* A transmitting adapter was dropped and released PTT at the second attempt
C2_Witness ==
    dropObs.ev = "drop" /\ dropObs.kind = "ft991a" /\ dropObs.wasTx /\ dropObs.log = <<FALSE, TRUE>>

\* The adapters that exist: the one bound in AppState and those threads own
Adapters == {radio} \cup {th[t].own : t \in Threads}

\* C3: on every adapter is_transmitting is false until a PTT call succeeds and
\* then true exactly when the most recent successful PTT call was ptt_on (a
\* failed PTT call leaves it as it was), whichever thread acquired the radio
\* mutex for the call.
C3_FlagFollowsLastPtt ==
    \A r \in Adapters : r.kind # "none" => (r.is_transmitting <=> r.last_ptt = "ptt_on")

\* A ptt_off failed on a transmitting adapter, which still reports transmitting
C3_Witness ==
    /\ RadioCommandReturned /\ obs.meth = "ptt_off" /\ ~obs.res.ok
    /\ radio.is_transmitting /\ radio.last_ptt = "ptt_on"

\* C4: every Ft991aRadio operation answered with the NAK reply '?;' returns an
\* error; a NAKed ptt_on leaves is_transmitting false and a NAKed ptt_off
\* leaves it true.
C4_NakIsError ==
    (RadioCommandReturned /\ obs.buf = Nak) =>
        /\ ~obs.res.ok
        /\ obs.meth = "ptt_on" => ~radio.is_transmitting
        /\ obs.meth = "ptt_off" => radio.is_transmitting

\* C5: a radio command on an Ft991aRadio that fails on a serial write or read
\* failure releases the adapter: AppState.radio is absent, the port name is
\* cleared and one serial-disconnected event was emitted.
C5_SerialFailureDisconnects ==
    (RadioCommandReturned /\ obs.res \in {WriteError, ReadError}) =>
        (radio.kind = "none" /\ port_name = NoPort /\ obs.events = 1)

\* Responses the adapter accepts: a frequency report inside the amateur bands,
\* a mode report with a code of the mode table, the bare terminator after a set
WellFormed(meth) ==
    CASE meth = "get_frequency" ->
            {<<"F", "A">> \o FreqText[f] \o <<";">> : f \in {g \in VfoFreqs : is_amateur_frequency(g)}}
      [] meth = "get_mode" ->
            {<<"M", "D", "0", MODE_TABLE[i][1], ";">> : i \in 1..Len(MODE_TABLE)}
      [] OTHER -> {<<";">>}

\* C6: a radio command that fails with a Cat error fails alone: AppState.radio
\* stays present, the port name is what it was and no event is emitted; and a
\* command that follows a Cat error and receives a well-formed response
\* succeeds.
C6_CatErrorIsLocal ==
    RadioCommandReturned =>
        /\ (~obs.res.ok /\ obs.res.kind = "Cat") =>
              (radio.kind = "ft991a" /\ port_name = obs.port0 /\ obs.events = 0)
        /\ (obs.prevErr /\ obs.buf \in WellFormed(obs.meth)) => obs.res.ok

\* A get_frequency that followed a failed command received a report and succeeded
C6_Witness ==
    /\ RadioCommandReturned /\ obs.meth = "get_frequency"
    /\ obs.prevErr /\ obs.buf \in WellFormed(obs.meth) /\ obs.res.ok
    /\ radio.kind = "ft991a" /\ port_name = obs.port0

\* Thread t is between the serial write of a command and the end of its read
InExchange(t) == th[t].pc \in {"sc_write", "sc_read"}

\* Thread t works on the connection of AppState: on the bound adapter, or on
\* one it took out of AppState and is dropping
OnSharedConnection(t) == th[t].tgt = "slot" \/ th[t].ret = "drop"

\* C7: exchanges on one radio connection never interleave: at most one thread
\* is inside an exchange on the connection of AppState (radio commands, the
\* PTT calls of start_tx / stop_tx, the drop-time PTT release), and it holds
\* the radio mutex until the exchange is over.
C7_ExchangesExclusive ==
    \A t \in Threads : (InExchange(t) /\ OnSharedConnection(t)) =>
        /\ radio_lock = t
        /\ \A u \in Threads \ {t} : ~(InExchange(u) /\ OnSharedConnection(u))

\* One thread is inside the drop-time PTT release while another waits to
\* start a command
C7_Witness ==
    \E t, u \in Threads :
        /\ InExchange(t) /\ th[t].ret = "drop" /\ th[t].pc = "sc_read"
        /\ th[u].pc = "cs_lock"

(***************************************************************************)
(* Properties of the CAT session                                           *)
(***************************************************************************)

\* execute returned in the last step, every read call of it having returned data
CleanReturn == s_obs.ev = "ret" /\ s_obs.chunks # <<>> /\ \A i \in 1..Len(s_obs.chunks) : s_obs.chunks[i] > 0

\* C8: for every command cmd and every well-formed response R, when the link
\* delivers the echo encode(cmd) followed by R, in one read or split across
\* read calls, execute(cmd) returns what it returns for R alone: decode(R, cmd).
C8_EchoStripped ==
    CleanReturn =>
        \A r \in Responses(s_obs.cmd) :
            s_obs.reply = encode(s_obs.cmd) \o r => s_obs.res = decode(r, s_obs.cmd)

\* C9: over a link that yields one byte per read call, a response of 65 bytes
\* ending with ';' is read in full (all 65 bytes are in buf before the echo
\* strip and decode) and execute does not fail with 'no response'.
C9_LongResponseReadFully ==
    (/\ CleanReturn
     /\ \A i \in 1..Len(s_obs.chunks) : s_obs.chunks[i] = 1
     /\ Len(s_obs.reply) = LongLen
     /\ s_obs.reply[LongLen] = ";")
        => (Len(s_obs.buf) = LongLen /\ s_obs.res.cause # "no_response")

\* C10: the serial write of an execute call happens at least 50 ms after the
\* call before it (counted from the moment that call began), however that
\* call ended.
C10_WritesPaced ==
    (s_obs.ev = "write" /\ s_obs.pbegan # Never) => s_obs.at - s_obs.pbegan >= COMMAND_DELAY_MS

\* C11: whenever execute returns, with a value or with any of its errors
\* (write error, read error, no response, invalid UTF-8, decode error), the
\* session's last-command timestamp is set, to a time within that call.
C11_TimestampSet ==
    s_obs.ev = "ret" =>
        /\ last_command_time # Never
        /\ last_command_time >= s_prev.began
        /\ last_command_time <= now

\* C12: in execute, a read timeout or read error after at least one response
\* byte was accumulated is not fatal: the bytes received so far go on to the
\* echo strip and decode; execute fails with 'no response' only after all 5
\* read calls were made and none delivered a byte; and every execute makes
\* exactly one write call and at most 5 read calls before it returns.
C12_ReadFailuresBounded ==
    s_obs.ev = "ret" =>
        LET ch == s_obs.chunks
            lateFailure == \E i \in 1..Len(ch) : ch[i] <= 0 /\ \E j \in 1..(i - 1) : ch[j] > 0
        IN  /\ s_obs.writes = 1
            /\ Len(ch) <= CAT_RESPONSE_TIMEOUT_READS
            /\ lateFailure =>
                  /\ s_obs.res.cause \notin {"read_failed", "no_response"}
                  /\ s_obs.res = IF IsUtf8(s_obs.buf)
                                 THEN decode(StripPrefixOr(s_obs.buf, encode(s_obs.cmd)), s_obs.cmd)
                                 ELSE CatErr("invalid_utf8")
            /\ s_obs.res.cause = "no_response" =>
                  (Len(ch) = CAT_RESPONSE_TIMEOUT_READS /\ \A i \in 1..Len(ch) : ch[i] = 0)

\* A read error struck after the first bytes of a response, the rest arrived
\* in a later read, and execute returned the decoded value
C12_Witness ==
    /\ s_obs.ev = "ret" /\ s_obs.res.ok /\ s_obs.writes = 1
    /\ \E i \in 1..Len(s_obs.chunks) :
          s_obs.chunks[i] = -1 /\ \E j \in 1..(i - 1) : s_obs.chunks[j] > 0

(***************************************************************************)
(* Properties of single adapter calls                                      *)
(***************************************************************************)

\* C13: get_frequency fails whenever the frequency of the radio's FA report
\* lies outside every amateur band range and returns that frequency whenever
\* it lies inside one; a band's lower and upper edge both count as inside.
C13_ReportedFrequencyValidated ==
    (fx.done /\ fx.fn = "get_frequency") =>
        IF \E i \in 1..Len(AMATEUR_BANDS_HZ) :
               AMATEUR_BANDS_HZ[i][1] <= fx.hz /\ fx.hz <= AMATEUR_BANDS_HZ[i][2]
        THEN fx.res = OkHz(fx.hz)
        ELSE ~fx.res.ok

\* The radio reported the upper edge of the 20 m band and get_frequency returned it
C13_Witness ==
    fx.done /\ fx.fn = "get_frequency" /\ fx.hz = 14350000 /\ fx.res = OkHz(14350000)

C15_StopTxOrder ==
    tx_obs.ev = "stop_ret" =>
        /\ tx_obs.abort /\ ~tx_obs.running
        /\ ~TxRunning /\ tx_thread = "none"

\* stop_tx joined a TX thread that had reported 'aborted', then released PTT
C15_Witness ==
    /\ tx_obs.ev = "stop_ret" /\ tx_obs.joined /\ tx_obs.called /\ tx_obs.res.ok
    /\ txt.pc = "exited" /\ txt.keyed /\ txt.log = <<"transmitting", "aborted">>
    /\ ~radio.is_transmitting /\ radio.last_ptt = "ptt_off"

\* The TX thread returned after it reported 'complete', in a transmission
\* whose ptt_on succeeded
CompletedKeyed ==
    /\ txt.pc = "exited" /\ txt.keyed
    /\ txt.log # <<>> /\ txt.log[Len(txt.log)] = "complete"

\* C16: every transmission that asserted PTT and ran to completion ('complete'
\* emitted) is followed by a PTT release (a ptt_off call is issued, or the
\* adapter no longer transmits) without a further command from the caller;
\* and PTT is asserted before the output callback pulls the first sample.
C16_PttAroundTransmission ==
    /\ [](txt.keyed /\ txt.key1 # "none" => txt.key1 = "keyed")
    /\ (CompletedKeyed ~> (~radio.is_transmitting \/ (tx_obs.ev = "stop_ret" /\ tx_obs.called)))

\* The tx-status events that end a transmission
TerminalEvents == {"complete", "aborted", "error"}

\* C17: once started the TX thread terminates (the output callback being
\* invoked for as long as the stream runs); the last tx-status event of a
\* thread that returned is 'complete', 'aborted' or 'error: ..', and it is
\* the only such event and the last event of the thread (so never both
\* 'complete' and 'aborted', and no 'transmitting' after it); 'complete' is
\* emitted only after the callback reported the buffer drained and 'aborted'
\* only after the abort flag was set.
C17_TxThreadTerminates ==
    /\ [](LET log == txt.log
          IN  /\ txt.pc = "exited" => (log # <<>> /\ log[Len(log)] \in TerminalEvents)
              /\ \A i \in 1..Len(log) :
                    log[i] \in TerminalEvents => (i = Len(log) /\ txt.pc = "exited")
              /\ (\E i \in 1..Len(log) : log[i] = "complete") => (txt.done /\ txt.pos = txt.total)
              /\ (\E i \in 1..Len(log) : log[i] = "aborted") => tx_abort)
    /\ (TxRunning ~> txt.pc = "exited")

\* A transmission of several samples was played to its end and reported complete
C17_Witness ==
    /\ txt.pc = "exited" /\ txt.log = <<"transmitting", "complete">>
    /\ txt.total > 1 /\ txt.pos = txt.total /\ txt.done /\ ~tx_abort

(***************************************************************************)
(* Properties of audio capture                                             *)
(***************************************************************************)

\* C18: an audio thread that is running when audio_running is clear
\* terminates; and when stop_audio_stream has returned no audio thread is
\* running, audio_running and rx_running are false and the stored audio
\* device name is cleared.
C18_StopAudioJoins ==
    /\ [](a_obs.ev = "stop_ret" =>
            /\ \A k \in AudioThreads : ~DspRunning(k)
            /\ ~audio_running /\ ~rx_running
            /\ audio_device_name = NoDevice)
    /\ \A k \in AudioThreads : ((DspRunning(k) /\ ~audio_running) ~> ~DspRunning(k))

\* Audio thread k returned after it had entered the DSP loop
LeftDspLoop(k) ==
    dsp[k].pc = "exited" /\ dsp[k].log[Len(dsp[k].log)] # "error: capture"

\* C19: an audio thread in its loop whose input stream died terminates; a
\* thread that found is_running() false stops its input, leaves
\* audio_running false and emits 'error: audio device lost' as its last
\* audio-status event, never 'stopped'; a thread that left the loop on the
\* stop flag (only ever while a stop_audio_stream waits for it) emits
\* 'stopped' as its last event.
C19_DeviceLossReported ==
    /\ [](\A k \in AudioThreads :
            LET log == dsp[k].log
            IN  /\ LeftDspLoop(k) =>
                      /\ dsp[k].input = "off"
                      /\ IF dsp[k].device_lost
                         THEN /\ log[Len(log)] = "error: audio device lost"
                              /\ \A i \in 1..Len(log) : log[i] # "stopped"
                         ELSE log[Len(log)] = "stopped" /\ dsp[k].stopSeen
                /\ (/\ dsp[k].pc = "shutdown" /\ dsp[k].device_lost
                    /\ \A j \in AudioThreads : j > k => dsp[j].pc = "none") => ~audio_running)
    /\ \A k \in AudioThreads : ((InDspLoop(k) /\ dsp[k].input = "dead") ~> dsp[k].pc = "exited")

\* With no stop requested, a thread whose device was lost reported it and returned
C19_Witness ==
    /\ dsp[1].pc = "exited" /\ dsp[1].device_lost /\ dsp[1].input = "off"
    /\ dsp[1].log = <<"running", "error: audio device lost">>
    /\ ~audio_running /\ a_cmd.pc = "idle" /\ audio_thread = 1

\* The samples of s are in the order they were offered, none twice
InOfferOrder(s) == \A i, j \in 1..Len(s) : i < j => s[i] < s[j]

\* C20: the samples popped by the DSP loop, followed by those the buffer
\* holds, are samples the callback pushed, in the order they were pushed and
\* none twice; a push loses a sample only when the buffer already holds as
\* many samples as its capacity, and then the new sample is the one dropped
\* and the buffered samples stay as they are; a push is possible whatever the
\* buffer holds (the producer never blocks).
C20_RingFifo ==
    /\ InOfferOrder(rb_popped \o rb)
    /\ \A i \in 1..Len(rb_popped \o rb) : (rb_popped \o rb)[i] \in 1..(rb_next - 1)
    /\ Len(rb) <= RingCapacity
    /\ rb_obs.ev = "push" =>
          /\ rb_obs.kept <=> Len(rb_obs.before) < RingCapacity
          /\ rb = IF rb_obs.kept THEN Append(rb_obs.before, rb_obs.sample) ELSE rb_obs.before
    /\ (rb_obs.ev = "pop" /\ rb_obs.before # <<>>) =>
          /\ rb_obs.sample = Head(rb_obs.before) /\ rb = Tail(rb_obs.before)
          /\ rb_popped[Len(rb_popped)] = rb_obs.sample
    /\ rb_next <= MaxOffered => ENABLED CapturePush

\* Sample 4 met a full buffer and was dropped; the older samples and a later
\* one were popped in order
C20_Witness ==
    rb_popped = <<1, 2, 3, 5>> /\ rb_obs.ev = "pop" /\ rb_obs.sample = 5

(***************************************************************************)
(* Properties of the varicode decoder and the encoder                      *)
(***************************************************************************)

\* The number of bits up to the end of the separator of the i-th character
RECURSIVE EndOf(_, _)
EndOf(text, i) == IF i = 0 THEN 0 ELSE EndOf(text, i - 1) + Len(VARICODE[text[i] + 1]) + 2

\* The characters of text whose separator ends not later than n bits after
\* bit number from, each with the number of the bit that ends its separator
EmittedBy(text, from, n) ==
    [i \in 1..Cardinality({j \in 1..Len(text) : from + EndOf(text, j) <= n}) |->
        [ch |-> text[i], at |-> from + EndOf(text, i)]]

\* C21: a fresh VaricodeDecoder fed the codes of a sequence of codepoints of
\* 0..=127, each followed by 00, has at every moment emitted exactly the
\* characters whose separator it has been given, each at the second bit of
\* its separator, and nothing else.
C21_RoundTrip ==
    v_idle = 0 => v_out = EmittedBy(v_text, 0, v_fed)

C21_Witness ==
    /\ v_idle = 0 /\ Len(v_text) = 3 /\ v_text[1] # v_text[2]
    /\ v_fed = Len(Feed)
    /\ Len(v_out) = 3

\* The code is 1 to 10 bits, begins and ends with 1 and holds no 00
WellFormedCode(code) ==
    /\ Len(code) \in 1..10
    /\ \A i \in 1..Len(code) : code[i] \in {"0", "1"}
    /\ code[1] = "1" /\ code[Len(code)] = "1"
    /\ \A i \in 1..(Len(code) - 1) : ~(code[i] = "0" /\ code[i + 1] = "0")

\* C22: the code Varicode::encode gives a codepoint of 0..=127 is 1 to 10
\* bits long, begins with 1, ends with 1, holds no two consecutive 0 bits,
\* and is the code of no other codepoint of 0..=127.
C22_TableWellFormed ==
    \A i \in 1..Len(v_text) :
        /\ Varicode_encode(v_text[i]) # Unsupported
        /\ WellFormedCode(Varicode_encode(v_text[i]))
        /\ \A c \in 0..127 : c # v_text[i] => Varicode_encode(c) # Varicode_encode(v_text[i])

C22_Witness ==
    /\ v_text = <<127>> /\ v_fed = Len(Feed)
    /\ v_out = <<[ch |-> 127, at |-> 12]>>

\* C23: a character whose codepoint is above 127 adds no bits to the stream
\* Psk31Encoder::encode builds (Varicode::encode returns None for it); only
\* codepoints of 0..=127 yield a code.
C23_AboveAsciiSkipped ==
    enc.done =>
        \A i \in 1..Len(enc.text) : enc.text[i] > 127 => enc.per[i] = <<>>

\* The bits the characters of 0..=127 in text stand for: each one's code,
\* then 00
RECURSIVE SupportedBits(_)
SupportedBits(text) ==
    IF text = <<>> THEN <<>>
    ELSE (IF Head(text) <= 127
          THEN [i \in 1..Len(VARICODE[Head(text) + 1]) |-> VARICODE[Head(text) + 1][i] = "1"]
                   \o <<FALSE, FALSE>>
          ELSE <<>>) \o SupportedBits(Tail(text))

\* C27: for every text the bit stream of Psk31Encoder::encode is 32 zero
\* bits, then for each supported character (codepoint 0..=127) its code
\* followed by two zero bits, then 32 zero bits, every bit is one symbol,
\* and the call returns 1536 samples for each bit.
C27_EncodedLength ==
    enc.done =>
        /\ enc.bits = [i \in 1..32 |-> FALSE] \o SupportedBits(enc.text) \o [i \in 1..32 |-> FALSE]
        /\ Len(enc.phase_change) = Len(enc.bits)
        /\ enc.samples = 1536 * (32 + Len(SupportedBits(enc.text)) + 32)

\* C28: for the text "HI" Psk31Encoder::encode produces
\* (32 + 9+2 + 7+2 + 32) x 1536 samples: 84 symbols, 129024 samples.
C28_HiSamples ==
    (enc.done /\ enc.text = <<72, 73>>) =>
        /\ Len(enc.phase_change) = 32 + 9 + 2 + 7 + 2 + 32
        /\ enc.samples = 129024

\* C28 as stated: 92 symbols, 141312 samples
C28_HiSamplesAsStated ==
    (enc.done /\ enc.text = <<72, 73>>) =>
        /\ Len(enc.phase_change) = 32 + 8 + 9 + 2 + 7 + 2 + 32
        /\ enc.samples = 141312

C28_Witness ==
    /\ enc.done /\ enc.text = <<72, 73>>
    /\ enc.per = <<bits_from_str(VARICODE[73]) \o <<FALSE, FALSE>>,
                   bits_from_str(VARICODE[74]) \o <<FALSE, FALSE>>>>

\* C30: two or more 0 bits pushed into a VaricodeDecoder whose register is
\* empty emit nothing and leave it behaving like a fresh decoder: the codes
\* that follow, each with its 00, are emitted as a fresh decoder emits them.
C30_IdleIsNoOp ==
    v_idle >= 2 => v_out = EmittedBy(v_text, v_idle, v_fed)

(***************************************************************************)
(* Properties of encode and decode                                         *)
(***************************************************************************)

\* C24: the mode table has fourteen entries, and for each (code, name) of
\* it encode(SetMode(name)) is "MD0" + code + ";", decode of that string for
\* GetMode is Mode(name), and so is decode of what encode returned.
C24_ModeTableRoundTrip ==
    /\ Len(CAT_MODE_TABLE) = 14
    /\ \A i \in 1..Len(CAT_MODE_TABLE) :
        LET code == CAT_MODE_TABLE[i][1]
            name == CAT_MODE_TABLE[i][2]
        IN  /\ (cx.name = name /\ cx.pc \in {"decode", "done"}) => cx.wire = ModeReport(<<code>>)
            /\ (cx.pc = "done" /\ cx.cmd.op = "GetMode" /\ cx.resp = ModeReport(<<code>>))
                    => cx.out = Mode(name)
            /\ (cx.name = name /\ cx.pc = "done") => cx.out = Mode(name)

C24_Witness ==
    /\ cx.pc = "done" /\ cx.name = "C4FM"
    /\ cx.wire = ModeReport(<<"E">>) /\ cx.out = Mode("C4FM")

InModeTable(col, v) == \E i \in 1..Len(CAT_MODE_TABLE) : CAT_MODE_TABLE[i][col] = v

\* C25: encode(SetMode(name)) for a name the mode table does not hold is
\* "MD0C;", and decode("MD0" + c + ";", GetMode) returns an error for every
\* character c that is not a code of the table.
C25_UnknownModes ==
    /\ (cx.wire # <<>> /\ ~InModeTable(2, cx.name)) => cx.wire = ModeReport(<<"C">>)
    /\ \A c \in CodeChars :
        (/\ cx.pc = "done" /\ cx.cmd.op = "GetMode" /\ cx.resp = ModeReport(c)
         /\ ~(Len(c) = 1 /\ InModeTable(1, c[1])))
            => (~cx.out.ok /\ cx.out # CatPanic)

\* r is exactly FA, eleven decimal digits, and the terminator
ExactFrequencyReport(r) ==
    /\ Len(r) = 14
    /\ r[1] = "F" /\ r[2] = "A"
    /\ \A i \in 3..13 : IsDigit(r[i])
    /\ r[14] = ";"

\* C26: decode(r, GetFrequencyA) succeeds only if r is exactly FA, eleven
\* decimal digits and ';', and then returns FrequencyHz of those digits;
\* every other response is an error.
C26_FrequencyReportExact ==
    (cx.pc = "done" /\ cx.cmd.op = "GetFrequencyA") =>
        IF ExactFrequencyReport(cx.resp)
        THEN cx.out = FrequencyHz(DigitsValue(SubSeq(cx.resp, 3, 13), 0))
        ELSE ~cx.out.ok

(***************************************************************************)
(* Properties of the PSK-31 decoder                                        *)
(***************************************************************************)

\* C29: set_carrier_freq(f) leaves the AGC gain as it was and resets the
\* rest: last_symbol is 0, bits_without_char is 0, invert_bits is false,
\* the varicode decoder's register and pending zeros are cleared, the clock
\* recovery and the Costas loop are as constructed, the carrier is f.
C29_RetuneKeepsGain ==
    d_obs.ev = "retune" =>
        /\ dec.agc = d_obs.before.agc
        /\ dec.last_symbol = ZeroSymbol
        /\ dec.bits_without_char = 0
        /\ ~dec.invert_bits
        /\ dec.varicode_decoder = VaricodeDecoder_new
        /\ dec.clock_recovery = ClockRecovery_new
        /\ dec.costas_loop = CostasLoop_new(d_obs.f)
        /\ dec.carrier_freq = d_obs.f

C29_Witness ==
    /\ d_obs.ev = "retune"
    /\ d_obs.f # d_obs.before.carrier_freq
    /\ d_obs.before.agc # Agc_new
    /\ d_obs.before.invert_bits
    /\ d_obs.before.bits_without_char > 0
    /\ d_obs.before.varicode_decoder # VaricodeDecoder_new
    /\ d_obs.before.costas_loop # CostasLoop_new(d_obs.before.carrier_freq)
    /\ d_obs.before.clock_recovery # ClockRecovery_new
    /\ dec.agc = d_obs.before.agc

\* C31: bits_without_char counts the bits pushed to the varicode decoder
\* since the last character: a process call that pushes a bit adds one, a
\* call that pushes none leaves it; it is 0 after a call that returned a
\* character; a call that brings it past 100 without a character toggles
\* invert_bits, sets it to 0 and resets the varicode decoder; after every
\* call it is at most 100, and process changes invert_bits in no other case.
C31_AmbiguityCounter ==
    /\ dec.bits_without_char <= 100
    /\ d_obs.ev = "process" =>
        LET was == d_obs.before
            crossed == d_obs.pushed /\ d_obs.ch = NoChar /\ was.bits_without_char = 100
        IN  /\ d_obs.ch # NoChar => (d_obs.pushed /\ dec.bits_without_char = 0)
            /\ ~d_obs.pushed =>
                    (dec.bits_without_char = was.bits_without_char
                     /\ dec.varicode_decoder = was.varicode_decoder)
            /\ (d_obs.pushed /\ d_obs.ch = NoChar /\ ~crossed) =>
                    dec.bits_without_char = was.bits_without_char + 1
            /\ crossed => (dec.bits_without_char = 0
                           /\ dec.varicode_decoder = VaricodeDecoder_new)
            /\ (dec.invert_bits # was.invert_bits) <=> crossed

C31_Witness ==
    /\ d_obs.ev = "process" /\ d_obs.pushed /\ d_obs.ch = NoChar
    /\ d_obs.before.bits_without_char = 100
    /\ d_obs.before.invert_bits /\ ~dec.invert_bits
    /\ dec.bits_without_char = 0

\* C32: in the output of Psk31Encoder::encode every 180-degree phase flip
\* of a phase-change symbol is applied at a sample where the envelope is
\* zero, never at a sample where the envelope is at full amplitude.
C32_FlipAtEnvelopeZero ==
    enc.done =>
        \A k \in 1..Len(enc.flips) :
            /\ enc.phase_change[k] => enc.flips[k] # <<>>
            /\ \A j \in 1..Len(enc.flips[k]) :
                generate_envelope(enc.phase_change[k], enc.flips[k][j]) = "zero"

(***************************************************************************)
(* Properties of the PTT flag against the serial link                      *)
(***************************************************************************)

\* C33: whenever the most recent PTT command an Ft991aRadio has written to
\* the serial link is 'TX1;', its is_transmitting flag is true, whatever the
\* outcome of reading the response was: when ptt_on returns after its write
\* call succeeded, the adapter in AppState.radio has is_transmitting set.
C33_KeyedLinkSetsFlag ==
    (RadioCommandReturned /\ obs.meth = "ptt_on" /\ obs.writes > 0
        /\ obs.res # WriteError /\ radio.kind = "ft991a") =>
        radio.is_transmitting

(***************************************************************************)
(* Properties of the thread handles                                        *)
(***************************************************************************)

\* C34: after a transmission finished on its own (its TX thread emitted
\* 'complete' or 'error: ..' and returned) a following start_tx is accepted
\* without a stop_tx in between: start_tx answers 'Already transmitting'
\* only while a TX thread is actually running.
C34_AlreadyTransmittingOnlyWhileRunning ==
    (tx_obs.ev = "start_ret" /\ tx_obs.err = "Already transmitting") => TxRunning

\* C35: at most one DSP (audio) thread is alive at any time, and a
\* start_audio_stream call made while an audio thread is running returns an
\* error and spawns nothing, so that no stored handle is replaced while its
\* thread is still running.
C35_OneAudioThreadAlive ==
    /\ \A j, k \in AudioThreads : (DspRunning(j) /\ DspRunning(k)) => j = k
    /\ \A k \in AudioThreads : DspRunning(k) => (a_cmd.pc = "sa_store" \/ audio_thread = k)

(***************************************************************************)
(* Properties of TX playback                                               *)
(***************************************************************************)

\* C36: during TX playback the play position never decreases and never
\* exceeds the length of the sample vector; every call of the output callback
\* delivers the samples that follow the play position, in order and each
\* once, and silence after the last one; the completion flag is set only
\* once the position has reached the length of the vector.
C36_PlaybackInOrder ==
    /\ txt.pos <= txt.total
    /\ txt.done => txt.pos = txt.total
    /\ tx_obs.ev = "callback" =>
          /\ tx_obs.before <= txt.pos
          /\ txt.pos = IF tx_obs.before + Len(tx_obs.out) < txt.total
                       THEN tx_obs.before + Len(tx_obs.out) ELSE txt.total
          /\ \A i \in 1..Len(tx_obs.out) :
                tx_obs.out[i] = IF i <= txt.pos - tx_obs.before THEN tx_obs.before + i ELSE 0

\* The callback was handed a buffer longer than what was left to play: the
\* last sample went out followed by silence
C36_Witness ==
    /\ tx_obs.ev = "callback" /\ tx_obs.before > 0
    /\ tx_obs.out = <<txt.total, 0>> /\ txt.pos = txt.total /\ ~txt.done

(***************************************************************************)
(* Properties of the RX and audio flags                                    *)
(***************************************************************************)

\* C37: rx_running implies audio_running in every reachable state: start_rx
\* fails while the audio stream is stopped, and whenever the audio thread
\* ends (stop, failed capture start, device loss) rx_running is false.
C37_RxOnlyWhileAudioRuns == rx_running => audio_running

(***************************************************************************)
(* Properties of the connection state                                      *)
(***************************************************************************)

\* No command is executing on any command thread
NoCommandExecuting == \A t \in Threads : th[t] = Idle

Executing(t) == lc[t].pc # "idle"

\* The thread that holds the mutex command thread t is waiting for, if any
Holders(t) == {u \in Threads \ {t} : \E m \in Mutexes : held[m] = u /\ ~ENABLED LcStep(t)}

\* Command thread t can take a step, or waits for a TX thread that runs
Advancing(t) ==
    \/ ENABLED LcStep(t)
    \/ At(t, "stop_tx", "join") /\ l_workers[lc[t].h] = "run"

ConnectBeforeStore(t) ==
    /\ th'[t] # th[t]
    /\ th[t].cmd = "connect_serial" \/ (th[t].pc = "idle" /\ th'[t].cmd = "connect_serial")
    /\ th[t].pc \notin {"cs_lock", "cs_port"}

\* C40: a connect_serial call that fails during auto-detect (get_frequency
\* or get_mode returns an error) leaves AppState.radio and the stored port
\* name as they were before the call: no step of connect_serial before its
\* stores changes either, the stores are reached only with an adapter whose
\* probes succeeded, and a call that returned an error never reached them.
C40_FailedConnectKeepsState ==
    /\ [][\A t \in Threads : ConnectBeforeStore(t) =>
            (radio' = radio /\ port_name' = port_name)]_vars
    /\ [](\A t \in Threads : th[t].pc \in {"cs_lock"} =>
            (th[t].own.kind # "none" /\ ~th[t].own.after_err /\ th[t].err = OkRes))
    /\ []((obs.ev = "ret" /\ obs.cmd = "connect_serial" /\ ~obs.res.ok) =>
            port_name = obs.port0)

\* connect_serial failed on a radio tuned outside the amateur bands while a
\* connection was in place, which is still there
C40_Witness ==
    /\ obs.ev = "ret" /\ obs.cmd = "connect_serial"
    /\ obs.res = ErrRes("Cat", "outside_amateur_bands")
    /\ radio.kind = "ft991a" /\ radio.last_ptt = "ptt_on" /\ port_name = obs.port0 /\ port_name # NoPort

=============================================================================
